---- MODULE Spec2Model ----
(***************************************************************************)
(* sshhipot: one proxied SSH channel pair (channel.go), its request proxy  *)
(* (request.go) and its asciicast recorder (cast.go).                      *)
(*                                                                         *)
(* A channel-open arrives on one endpoint (nc).  HandleChannel opens the   *)
(* counterpart channel pch on the other endpoint, accepts the incoming     *)
(* channel ich and starts two direction workers (proxyChannel):            *)
(*     "i": source ich, destination pch      "o": source pch, dest. ich    *)
(* Each worker owns two readStream goroutines (data "d", stderr "e") and   *)
(* the request channel of its source.  Both workers share one LogFile.     *)
(*                                                                         *)
(* The golang.org/x/crypto/ssh channels, the peers and the file system are *)
(* the environment: their results are drawn nondeterministically.          *)
(***************************************************************************)
EXTENDS Integers, Sequences, FiniteSets, TLC

\* ------------------------------------------------------------------ bounds
MaxBytes == 2       \* bytes the source streams hand out in a run
MaxChunk == 2       \* longest chunk one Read returns (BUFLEN scaled down)
MaxReqs == 1        \* requests (channel and global) arriving in a run
LogMax == 12        \* the -log-max value of the run
TsLen == 3          \* width of the JSON timestamp of an event line
MaxTwin == 2        \* requests fed to the two handlers of SilentSpec
MaxCalls == 4       \* method calls on the LogFile of LogFileSpec
MaxList == 4        \* characters of the -creds list
MaxName == 2        \* characters of an offered user name or password
MaxTries == 2       \* authentication attempts of one connection
MaxEvents == 2      \* channel-opens and global requests of one session
MaxClients == 2     \* value of -max-clients
MaxConns == 3       \* connections that reach the listener

Dirs == {"i", "o"}
Streams == {"d", "e"}
Chans == {"ich", "pch"}

\* proxyChannel(tag, lf, "i", pch, ich, ireqs, ...) and
\* proxyChannel(tag, lf, "o", ich, pch, preqs, ...)
SrcOf(dir) == IF dir = "i" THEN "ich" ELSE "pch"
DstOf(dir) == IF dir = "i" THEN "pch" ELSE "ich"

\* Go's uint, scaled down from 2^64: subtraction wraps around
UintMod == 65536
Uint(x) == x % UintMod

\* ----------------------------------------------------------- cast.go: LogFile
\* A LogFile value.  f is the *os.File: "nil", "open" or "closed"; fcloses
\* counts the Close calls made on the os.File once it existed.
\* the zero time.Time, and the instant time.Now() of a run that reads the
\* clock once
ZeroTime == 0
Now == 1

NewLogFile ==
    [max |-> LogMax, nw |-> 0, f |-> "nil", fcloses |-> 0, done |-> FALSE,
     header |-> FALSE, term |-> <<>>, width |-> 0, height |-> 0,
     command |-> <<>>, start |-> ZeroTime]

\* The recording file on disk: whether it exists, and its lines.
NoFile == [exists |-> FALSE, lines |-> <<>>]

\* Outcomes of the file system calls of one WriteShell
FsOutcomes == {"ok", "mkdir", "create", "header", "event"}

\* l.f.Close(): closing a nil file only returns an error
CloseF(l) ==
    IF l.f = "nil" THEN l
    ELSE [l EXCEPT !.f = "closed", !.fcloses = @ + 1]

\* length of json.Marshal([3]interface{}{seconds, d, string(b)}) for
\* printable b:  [ ts , "d" , " b " ]
EventJSONLen(b) == TsLen + 8 + Len(b)

\* WriteHeader: the result is the LogFile, the file and whether it failed
WriteHeader(l, fl, fs) ==
    IF fs = "header"
    THEN [l |-> CloseF([l EXCEPT !.done = TRUE]), file |-> fl, err |-> TRUE]
    ELSE [l |-> [l EXCEPT !.header = TRUE],
          file |-> [fl EXCEPT !.lines = Append(@,
                       [kind |-> "H", dir |-> "-", data |-> l.term,
                        width |-> l.width, height |-> l.height,
                        command |-> l.command, bytes |-> 0])],
          err |-> FALSE]

\* The event part of WriteShell (from the JSON marshalling on)
WriteEvent(l, fl, b, d, fs) ==
    IF Uint(EventJSONLen(b)) > Uint(l.max - l.nw)
    THEN [l |-> CloseF([l EXCEPT !.done = TRUE]), file |-> fl,
          n |-> Len(b), err |-> FALSE]
    ELSE IF fs = "event"
    THEN [l |-> CloseF([l EXCEPT !.done = TRUE]), file |-> fl,
          n |-> 0, err |-> TRUE]
    ELSE [l |-> l,
          file |-> [fl EXCEPT !.lines = Append(@,
                       [kind |-> "E", dir |-> d, data |-> b,
                        width |-> 0, height |-> 0, command |-> <<>>,
                        bytes |-> EventJSONLen(b) + 1])],
          n |-> Len(b), err |-> FALSE]

\* a WriteShell without the test of l.done
WriteShellNoDone(l, fl, b, d, fs) ==
    IF l.start = ZeroTime
    THEN [l |-> l, file |-> fl, n |-> Len(b), err |-> FALSE]
    ELSE LET h == IF l.header THEN [l |-> l, file |-> fl, err |-> FALSE]
                  ELSE WriteHeader(l, fl, fs)
         IN  IF h.err
             THEN [l |-> CloseF([h.l EXCEPT !.done = TRUE]), file |-> h.file,
                   n |-> 0, err |-> TRUE]
             ELSE WriteEvent(h.l, h.file, b, d, fs)

\* a WriteShell without the test of l.start
WriteShellUnstarted(l, fl, b, d, fs) ==
    IF l.done THEN [l |-> l, file |-> fl, n |-> Len(b), err |-> FALSE]
    ELSE IF l.f = "nil" /\ fs \in {"mkdir", "create"}
    THEN [l |-> [l EXCEPT !.done = TRUE], file |-> fl, n |-> 0, err |-> TRUE]
    ELSE LET l1 == IF l.f = "nil" THEN [l EXCEPT !.f = "open"] ELSE l
             f1 == IF l.f = "nil" THEN [exists |-> TRUE, lines |-> <<>>]
                   ELSE fl
             h == IF l1.header THEN [l |-> l1, file |-> f1, err |-> FALSE]
                  ELSE WriteHeader(l1, f1, fs)
         IN  IF h.err
             THEN [l |-> CloseF([h.l EXCEPT !.done = TRUE]), file |-> h.file,
                   n |-> 0, err |-> TRUE]
             ELSE WriteEvent(h.l, h.file, b, d, fs)

\* WriteShell(b, d) with the file system answering fs
WriteShell(l, fl, b, d, fs) ==
    IF l.done THEN [l |-> l, file |-> fl, n |-> Len(b), err |-> FALSE]
    ELSE IF l.start = ZeroTime
    THEN [l |-> l, file |-> fl, n |-> Len(b), err |-> FALSE]
    ELSE IF l.f = "nil" /\ fs \in {"mkdir", "create"}
    THEN [l |-> [l EXCEPT !.done = TRUE], file |-> fl, n |-> 0, err |-> TRUE]
    ELSE LET l1 == IF l.f = "nil" THEN [l EXCEPT !.f = "open"] ELSE l
             f1 == IF l.f = "nil" THEN [exists |-> TRUE, lines |-> <<>>]
                   ELSE fl
             h == IF l1.header THEN [l |-> l1, file |-> f1, err |-> FALSE]
                  ELSE WriteHeader(l1, f1, fs)
         IN  IF h.err
             THEN [l |-> CloseF([h.l EXCEPT !.done = TRUE]), file |-> h.file,
                   n |-> 0, err |-> TRUE]
             ELSE WriteEvent(h.l, h.file, b, d, fs)

\* a Close that does not test done
LogFileCloseAgain(l) == CloseF([l EXCEPT !.done = TRUE])

\* Close()
LogFileClose(l) ==
    IF l.done THEN l ELSE CloseF([l EXCEPT !.done = TRUE])

\* a Start that does not test whether the LogFile is started
StartAgain(l, command, now) ==
    IF l.done THEN [l |-> l, err |-> TRUE]
    ELSE [l |-> [l EXCEPT !.command = command, !.start = now],
          err |-> FALSE]

\* Start(command) at the instant now: the LogFile and whether an error
\* was returned
Start(l, command, now) ==
    IF l.done THEN [l |-> l, err |-> TRUE]
    ELSE IF l.start # ZeroTime THEN [l |-> l, err |-> TRUE]
    ELSE [l |-> [l EXCEPT !.command = command, !.start = now],
          err |-> FALSE]

\* binary.BigEndian.Uint32 of a four byte sequence
Uint32(s) == s[1] * 16777216 + s[2] * 65536 + s[3] * 256 + s[4]

\* ParsePTYPayload(r).  r is the payload slice; slack are the bytes of the
\* packet buffer behind it (cap(r) = len(r) + len(slack)), which r[:4] and
\* r[4:8] reach when r is shorter than 8.  A slice bound beyond the capacity
\* panics.  The fields are assigned one by one, so a panic keeps the
\* earlier assignments.
ParsePTYPayload(l, r, slack) ==
    IF l.term # <<>> THEN [l |-> l, err |-> TRUE, panic |-> FALSE]
    ELSE IF 4 > Len(r) THEN [l |-> l, err |-> TRUE, panic |-> FALSE]
    ELSE LET tlen == Uint32(SubSeq(r, 1, 4))
             r1 == SubSeq(r, 5, Len(r))
         IN  IF tlen > Len(r1) THEN [l |-> l, err |-> TRUE, panic |-> FALSE]
             ELSE LET l1 == [l EXCEPT !.term = SubSeq(r1, 1, tlen)]
                      r2 == SubSeq(r1, tlen + 1, Len(r1))
                      back == r2 \o slack
                  IN  IF 0 > Len(r2)
                      THEN [l |-> l1, err |-> TRUE, panic |-> FALSE]
                      ELSE IF Len(back) < 4
                      THEN [l |-> l1, err |-> FALSE, panic |-> TRUE]
                      ELSE IF Len(back) < 8
                      THEN [l |-> [l1 EXCEPT
                                     !.width = Uint32(SubSeq(back, 1, 4))],
                            err |-> FALSE, panic |-> TRUE]
                      ELSE [l |-> [l1 EXCEPT
                                     !.width = Uint32(SubSeq(back, 1, 4)),
                                     !.height = Uint32(SubSeq(back, 5, 8))],
                            err |-> FALSE, panic |-> FALSE]

\* PTYString() panics ("pty unset") when no TERM is stored
PTYStringPanics(l) == l.term = <<>>

\* ------------------------------------------------------------- the requests
\* Strings are byte sequences.  A pty-req payload is
\*     u32 term_len | TERM | u32 width | u32 height | ...
PtyGood == <<0, 0, 0, 1, 120, 0, 0, 0, 80, 0, 0, 0, 24>>
PtyEmptyTerm == <<0, 0, 0, 0, 0, 0, 0, 80, 0, 0, 0, 24>>
PtyNoSize == <<0, 0, 0, 1, 120, 0, 0>>
PtyShortTerm == <<0, 0, 0, 5, 120>>
PtyTiny == <<0, 0>>
PtyOther == <<0, 0, 0, 1, 121, 0, 0, 0, 100, 0, 0, 0, 40>>
Stale == <<0, 0, 0, 9, 0, 0, 0, 9>>
CmdLs == <<108, 115>>

Req(t, w, p, s) == [type |-> t, wantReply |-> w, payload |-> p, slack |-> s]

\* a request that wants a reply (and starts the recorder) and one that
\* wants none (and half-closes the destination)
CoreReqs ==
    {Req("shell", TRUE, <<>>, <<>>), Req("eow@openssh.com", FALSE, <<>>, <<>>)}

\* every request shape the handlers distinguish
AllReqs ==
    CoreReqs \cup
    {Req("pty-req", TRUE, PtyGood, <<>>),
     Req("pty-req", TRUE, PtyEmptyTerm, <<>>),
     Req("pty-req", TRUE, PtyNoSize, <<>>),
     Req("pty-req", FALSE, PtyNoSize, Stale),
     Req("pty-req", TRUE, PtyShortTerm, <<>>),
     Req("pty-req", FALSE, PtyTiny, Stale),
     Req("exec", TRUE, CmdLs, <<>>), Req("exec", FALSE, CmdLs, <<>>),
     Req("env", TRUE, CmdLs, <<>>), Req("env", FALSE, <<>>, <<>>)}

NoReq == [id |-> 0, req |-> Req("", FALSE, <<>>, <<>>)]

\* a channel-open: the channel type and the type-specific extra data
NewChannels ==
    {[type |-> "session", extra |-> <<>>],
     [type |-> "direct-tcpip", extra |-> <<7>>],
     [type |-> "direct-tcpip", extra |-> <<8>>]}
SessionOpen == [type |-> "session", extra |-> <<>>]

\* an OpenChannel that asks for a session channel whatever was asked of it
OpenChannelSession(n) == [type |-> "session", extra |-> <<>>]

\* c.OpenChannel(nc.ChannelType(), nc.ExtraData()): the call made on the
\* other connection
OpenChannel(n) == [type |-> n.type, extra |-> n.extra]

Reasons == {"Prohibited", "ConnectionFailed", "UnknownChannelType"}
Messages == {"x11 disabled", "no"}
NoErr == [kind |-> "none", reason |-> "", message |-> ""]

\* -silent-channel-requests: its default, and other lists one may give
SilentChannelRequests == {"pty-req", "exit-status"}
SilentSets == {{}, SilentChannelRequests, {"shell", "eow@openssh.com", "env"}}

\* request.go, LogRequest(tag, req, global, m): the lines it logs
LogRequest(r, global, m) ==
    IF r.type \in m THEN <<>>
    ELSE <<[global |-> global, type |-> r.type, wantReply |-> r.wantReply,
            payload |-> r.payload]>>

\* channel.go (2016), rejectChannel: the Reject call made for the error nce
rejectChannel(nce) ==
    IF nce.kind = "oce"
    THEN [op |-> "Reject", reason |-> nce.reason, message |-> nce.message]
    ELSE [op |-> "Reject", reason |-> "Prohibited", message |-> nce.message]

\* ------------------------------------------------------------------ state
VARIABLES
    hc,         \* HandleChannel: "open", "accept", "proxying", "closed",
                \* "returned"
    nc,         \* the incoming NewChannel: its channel type and extra data
    ocCalls,    \* the OpenChannel calls made on the other connection
    openErr,    \* the error c.OpenChannel returned
    ncCalls,    \* the Accept / Reject calls made on the incoming NewChannel
    closes,     \* Close() calls made by the proxy, per channel
    sentEOF,    \* the proxy called CloseWrite() on the channel
    broken,     \* the peer closed the channel (or the transport died)
    srcEOF,     \* the peer sent EOF (or closed): reads of the channel end
    reqsClosed, \* the channel's request stream was closed
    wpc,        \* proxyChannel: "idle", "outer", "inner", "wait",
                \* "drain", "exited"
    reqs,       \* requests buffered in the source's request stream
    reqsNil,    \* the worker's reqs variable is nil
    discard,    \* ssh.DiscardRequests runs on the request stream
    cur,        \* the request whose reply the worker waits for
    nreq,       \* the worker's request counter
    arrived,    \* requests that arrived so far
    fwd,        \* requests sent to the destination channel
    answers,    \* answers of the destination's peer to forwarded requests
    replies,    \* replies sent to the requester
    rpc,        \* readStream: "idle", "read" (in r.Read), "send" (in
                \* ch <- b), "closed" (returned, ch closed)
    rbuf,       \* the chunk readStream holds while it sends
    chNil,      \* the worker's ich / ech variable is nil
    srcRead,    \* bytes read from the source stream (they are numbered)
    delivered,  \* bytes written to the destination stream
    wfail,      \* a write to the destination stream failed
    lf,         \* the shared LogFile
    file,       \* the recording file
    panicked,   \* a goroutine panicked: the process is gone
    dchCloses,  \* executions of close(dch)
    onceDone,   \* the sync.Once of done() was used
    glob,       \* the global requests of one endpoint, proxied to the
                \* connection of the other
    obj,        \* a LogFile called method by method, with the last call
                \* and its result (used by LogFileSpec only)
    auth,       \* the -creds list, the map parsed from it and the last
                \* authentication attempt (used by CredsSpec only)
    sess,       \* one incoming connection in handle: where handle is, the
                \* authentication attempts and the dials of the upstream
                \* server (used by HandleSpec only)
    acc,        \* main's accept loop: its semaphore, where it is, and the
                \* sessions it started (used by AcceptSpec only)
    mu,         \* a LogFile used by both workers statement by statement:
                \* the holder of its sync.Mutex and where each worker is
                \* in its method (used by MutexSpec only)
    opened,     \* a channel pair and the endpoint that opened it: the
                \* recorder, its file and the endpoint each recorded
                \* chunk came from (used by PairSpec only)
    keys,       \* main's key loading: the key files, the keys returned by
                \* LoadOrMakeKeys and the ones handed to Handle (used by
                \* KeysSpec only)
    twin        \* two request handlers fed the same requests under two
                \* silent sets (used by SilentSpec only)

hcVars == <<hc, nc, ocCalls, openErr, ncCalls>>
chanVars == <<closes, sentEOF, broken, srcEOF, reqsClosed>>
reqVars == <<reqs, reqsNil, discard, cur, nreq, arrived, fwd, answers,
            replies>>
dataVars == <<rpc, rbuf, chNil, srcRead, delivered, wfail>>
recVars == <<lf, file>>
doneVars == <<dchCloses, onceDone>>
\* the state of the specifications of single units
unitVars == <<twin, obj, auth, sess, acc, keys, mu, opened>>
\* the state of the program
progVars == <<hcVars, chanVars, reqVars, dataVars, recVars, doneVars, wpc,
              panicked, glob>>
\* all variables but one unit's
butTwin ==
    <<progVars, obj, auth, sess, acc, keys, mu, opened>>
butObj ==
    <<progVars, twin, auth, sess, acc, keys, mu, opened>>
butAuth ==
    <<progVars, twin, obj, sess, acc, keys, mu, opened>>
butSess ==
    <<progVars, twin, obj, auth, acc, keys, mu, opened>>
butAcc ==
    <<progVars, twin, obj, auth, sess, keys, mu, opened>>
butKeys ==
    <<progVars, twin, obj, auth, sess, acc, mu, opened>>
butMu ==
    <<progVars, twin, obj, auth, sess, acc, keys, opened>>
butPair == <<progVars, twin, obj, auth, sess, acc, keys, mu>>
vars == <<hcVars, chanVars, reqVars, dataVars, recVars, doneVars, wpc,
          panicked, glob, unitVars>>

NoGlobals ==
    [q |-> <<>>, wait |-> FALSE, cur |-> NoReq, arrived |-> 0, fwd |-> <<>>,
     answers |-> <<>>, replies |-> <<>>, down |-> FALSE]

PerStream(v) == [dir \in Dirs |-> [st \in Streams |-> v]]

\* one request handler of SilentSpec: its LogFile, whether it called
\* d.CloseWrite(), what it sent on, what it replied, what it logged, its
\* request counter, whether its reqs is nil and whether it panicked
Run0 ==
    [l |-> NewLogFile, cw |-> FALSE, fwd |-> <<>>, replies |-> <<>>,
     log |-> <<>>, nreq |-> 0, done |-> FALSE, panicked |-> FALSE]

\* the chunks a Write may be given
Chunks == UNION {[1..n -> {97}] : n \in 1..MaxChunk}

\* an empty -creds list, not parsed, and no authentication attempt yet
NoAuth ==
    [list |-> <<>>, parsed |-> FALSE, fatal |-> FALSE, creds |-> <<>>,
     tried |-> FALSE, method |-> "", user |-> <<>>, password |-> <<>>,
     accepted |-> FALSE]

\* a connection just accepted, handle in ssh.NewServerConn, the server
\* configuration made without -A
NoSess ==
    [variant |-> "handle", noAuth |-> FALSE, pc |-> "handshake",
     tried |-> <<>>, upstream |-> 0, estab |-> {}, ended |-> {},
     closed |-> FALSE, scClosed |-> FALSE, clientClosed |-> FALSE,
     arrived |-> 0, pend |-> [k \in {"chan", "req"} |-> 0], disp |-> <<>>,
     reqs |-> <<>>, taken |-> <<>>, sent |-> <<>>, refused |-> <<>>]

\* the connections that may arrive
Conns == 1..MaxConns

\* main before its accept loop: the semaphore is empty, no connection was
\* accepted; of each session its state and the calls of its completion
\* callback
NoAcc ==
    [pc |-> "sem", sem |-> 0, state |-> [c \in Conns |-> "none"],
     calls |-> [c \in Conns |-> 0]]

\* a new LogFile shared by the two workers: its mutex is free and no
\* worker is in a method
NoMu ==
    [holder |-> "none", pc |-> [dir \in Dirs |-> "idle"],
     n |-> [dir \in Dirs |-> 0], l |-> NewLogFile, file |-> NoFile]

\* the two endpoints of a session
Endpoints == {"client", "upstream"}

\* no channel-open has arrived
NoPair ==
    [opener |-> "none", l |-> NewLogFile, file |-> NoFile, from |-> <<>>,
     n |-> 0]

\* the three key files named on the command line
KeyFiles == {"skeyf", "ckeyf", "hkeyf"}

\* main before it loads its keys: no file exists, nothing was returned
NoKeys ==
    [pc |-> "start", run |-> 1, fs |-> [f \in KeyFiles |-> "absent"],
     wrote |-> {}, dials |-> 0, ret |-> <<>>,
     main |-> [ckey |-> "", skey |-> "", hkey |-> ""],
     handle |-> <<>>]

\* a new LogFile on which no method was called: the LogFile and its file,
\* the last call with its arguments and results, the LogFile and the file
\* before that call, the number of calls, and the number of ParsePTYPayload
\* calls that returned nil
NoObj ==
    [l |-> NewLogFile, file |-> NoFile, call |-> "none", command |-> <<>>,
     b |-> <<>>, n |-> 0, err |-> FALSE, was |-> NewLogFile,
     wasFile |-> NoFile, calls |-> 0, parsed |-> 0]

\* the two handlers with their silent sets, and the requests fed so far
NoTwin == [ma |-> {}, mb |-> {}, n |-> 0, a |-> Run0, b |-> Run0]

InitChannel ==
    /\ hc = "open" /\ ocCalls = <<>> /\ openErr = NoErr /\ ncCalls = <<>>
    /\ closes = [c \in Chans |-> 0] /\ sentEOF = [c \in Chans |-> FALSE]
    /\ broken = [c \in Chans |-> FALSE] /\ srcEOF = [c \in Chans |-> FALSE]
    /\ reqsClosed = [c \in Chans |-> FALSE]
    /\ wpc = [dir \in Dirs |-> "idle"]
    /\ reqs = [dir \in Dirs |-> <<>>] /\ reqsNil = [dir \in Dirs |-> FALSE]
    /\ discard = [dir \in Dirs |-> FALSE] /\ cur = [dir \in Dirs |-> NoReq]
    /\ nreq = [dir \in Dirs |-> 0] /\ arrived = [dir \in Dirs |-> 0]
    /\ fwd = [dir \in Dirs |-> <<>>] /\ answers = [dir \in Dirs |-> <<>>]
    /\ replies = [dir \in Dirs |-> <<>>]
    /\ rpc = PerStream("idle") /\ rbuf = PerStream(<<>>)
    /\ chNil = PerStream(FALSE) /\ srcRead = PerStream(0)
    /\ delivered = PerStream(<<>>) /\ wfail = PerStream(FALSE)
    /\ lf = NewLogFile /\ file = NoFile
    /\ panicked = FALSE /\ dchCloses = 0 /\ onceDone = FALSE
    /\ glob = NoGlobals

\* HandleChannel is called with the open of a session channel
InitBase == InitChannel /\ nc = SessionOpen

\* no unit has run
UnitInit ==
    /\ twin = NoTwin /\ obj = NoObj /\ auth = NoAuth /\ sess = NoSess
    /\ acc = NoAcc /\ keys = NoKeys /\ mu = NoMu
    /\ opened = NoPair

Init == InitBase /\ UnitInit

\* --------------------------------------------------- channel.go: HandleChannel
\* a HandleChannel that answers every failed open with Prohibited
OpenRejectedProhibited(reason, message) ==
    /\ ~panicked /\ hc = "open"
    /\ ocCalls' = Append(ocCalls, OpenChannel(nc)) /\ UNCHANGED nc
    /\ openErr' = [kind |-> "oce", reason |-> reason, message |-> message]
    /\ ncCalls' = Append(ncCalls, [op |-> "Reject", reason |-> "Prohibited",
                                   message |-> message])
    /\ hc' = "returned"
    /\ UNCHANGED <<chanVars, reqVars, dataVars, recVars, doneVars, wpc,
                   panicked, glob, unitVars>>

\* c.OpenChannel failed with an *ssh.OpenChannelError: reject nc with its
\* reason and message (whether or not Reject reports an error) and return
OpenRejected(reason, message) ==
    /\ ~panicked /\ hc = "open"
    /\ ocCalls' = Append(ocCalls, OpenChannel(nc)) /\ UNCHANGED nc
    /\ openErr' = [kind |-> "oce", reason |-> reason, message |-> message]
    /\ ncCalls' = Append(ncCalls, [op |-> "Reject", reason |-> reason,
                                   message |-> message])
    /\ hc' = "returned"
    /\ UNCHANGED <<chanVars, reqVars, dataVars, recVars, doneVars, wpc,
                   panicked, glob, unitVars>>

\* c.OpenChannel failed with another error: log and return
OpenFailed(message) ==
    /\ ~panicked /\ hc = "open"
    /\ ocCalls' = Append(ocCalls, OpenChannel(nc)) /\ UNCHANGED nc
    /\ openErr' = [kind |-> "other", reason |-> "", message |-> message]
    /\ hc' = "returned"
    /\ UNCHANGED <<ncCalls, chanVars, reqVars, dataVars, recVars, doneVars,
                   wpc, panicked, glob, unitVars>>

\* c.OpenChannel succeeded: pch exists
OpenOK ==
    /\ ~panicked /\ hc = "open"
    /\ ocCalls' = Append(ocCalls, OpenChannel(nc)) /\ UNCHANGED nc
    /\ hc' = "accept"
    /\ UNCHANGED <<openErr, ncCalls, chanVars, reqVars, dataVars, recVars,
                   doneVars, wpc, panicked, glob, unitVars>>

\* nc.Accept() failed: close pch and return
AcceptFailed ==
    /\ ~panicked /\ hc = "accept"
    /\ ncCalls' = Append(ncCalls, [op |-> "Accept", reason |-> "",
                                   message |-> "failed"])
    /\ closes' = [closes EXCEPT !["pch"] = @ + 1]
    /\ hc' = "returned"
    /\ UNCHANGED <<nc, ocCalls, openErr, sentEOF, broken, srcEOF, reqsClosed,
                   reqVars, dataVars,
                   recVars, doneVars, wpc, panicked, glob, unitVars>>

\* nc.Accept() succeeded: the goroutine makes the LogFile and starts both
\* proxyChannel workers, which start their readStream goroutines
AcceptOK ==
    /\ ~panicked /\ hc = "accept"
    /\ ncCalls' = Append(ncCalls, [op |-> "Accept", reason |-> "",
                                   message |-> ""])
    /\ hc' = "proxying"
    /\ wpc' = [dir \in Dirs |-> "outer"]
    /\ rpc' = PerStream("read")
    /\ UNCHANGED <<nc, ocCalls, openErr, chanVars, reqVars, rbuf, chNil,
                   srcRead,
                   delivered, wfail, recVars, doneVars, panicked, glob,
                   unitVars>>

\* a HandleChannel whose return closes ich only
TeardownOneSide ==
    /\ ~panicked /\ hc = "proxying" /\ dchCloses > 0
    /\ closes' = [closes EXCEPT !["ich"] = @ + 1]
    /\ hc' = "closed"
    /\ UNCHANGED <<nc, ocCalls, openErr, ncCalls, sentEOF, broken, srcEOF,
                   reqsClosed, reqVars,
                   dataVars, recVars, doneVars, wpc, panicked, glob, unitVars>>

\* <-dch returned: the deferred ich.Close() and pch.Close() run
Teardown ==
    /\ ~panicked /\ hc = "proxying" /\ dchCloses > 0
    /\ closes' = [c \in Chans |-> closes[c] + 1]
    /\ hc' = "closed"
    /\ UNCHANGED <<nc, ocCalls, openErr, ncCalls, sentEOF, broken, srcEOF,
                   reqsClosed, reqVars,
                   dataVars, recVars, doneVars, wpc, panicked, glob, unitVars>>

\* ------------------------------------------------------------- environment
Paired == hc \in {"proxying", "closed"}

\* readStream goroutines blocked in a Read of channel c get io.EOF, return
\* and close their channel
EndReads(c) ==
    [dir \in Dirs |-> [st \in Streams |->
        IF SrcOf(dir) = c /\ rpc[dir][st] = "read" THEN "closed"
        ELSE rpc[dir][st]]]

\* the peer of channel c sends EOF: its data and stderr reads end
PeerEOF(c) ==
    /\ ~panicked /\ Paired /\ ~srcEOF[c]
    /\ srcEOF' = [srcEOF EXCEPT ![c] = TRUE]
    /\ rpc' = EndReads(c)
    /\ UNCHANGED <<hcVars, closes, sentEOF, broken, reqsClosed, reqVars, rbuf,
                   chNil, srcRead, delivered, wfail, recVars, doneVars, wpc,
                   panicked, glob, unitVars>>

\* the peer of channel c closes it (or the connection ends): reads end, the
\* request stream is closed, writes and requests to c fail
PeerClose(c) ==
    /\ ~panicked /\ Paired /\ ~broken[c]
    /\ srcEOF' = [srcEOF EXCEPT ![c] = TRUE]
    /\ rpc' = EndReads(c)
    /\ reqsClosed' = [reqsClosed EXCEPT ![c] = TRUE]
    /\ broken' = [broken EXCEPT ![c] = TRUE]
    /\ UNCHANGED <<hcVars, closes, sentEOF, reqVars, rbuf, chNil, srcRead,
                   delivered, wfail, recVars, doneVars, wpc, panicked, glob,
                   unitVars>>

TotalArrived == arrived["i"] + arrived["o"] + glob.arrived

\* a channel request arrives from the peer of the source of dir
Arrive(dir, r) ==
    /\ ~panicked /\ Paired /\ ~reqsClosed[SrcOf(dir)]
    /\ TotalArrived < MaxReqs
    /\ arrived' = [arrived EXCEPT ![dir] = @ + 1]
    /\ reqs' = [reqs EXCEPT ![dir] = Append(@, [id |-> arrived[dir] + 1,
                                                 req |-> r])]
    /\ UNCHANGED <<hcVars, chanVars, reqsNil, discard, cur, nreq, fwd, answers,
                   replies, dataVars, recVars, doneVars, wpc, panicked, glob,
                   unitVars>>

ReqArrive(dir) == \E r \in CoreReqs : Arrive(dir, r)

\* one request more arrives on a stream that ssh.DiscardRequests serves
LateArrive(dir) ==
    /\ ~panicked /\ Paired /\ ~reqsClosed[SrcOf(dir)]
    /\ discard[dir] /\ TotalArrived = MaxReqs
    /\ arrived' = [arrived EXCEPT ![dir] = @ + 1]
    /\ \E r \in CoreReqs :
          reqs' = [reqs EXCEPT ![dir] = Append(@, [id |-> arrived[dir] + 1,
                                                   req |-> r])]
    /\ UNCHANGED <<hcVars, chanVars, reqsNil, discard, cur, nreq, fwd, answers,
                   replies, dataVars, recVars, doneVars, wpc, panicked, glob,
                   unitVars>>

\* --------------------------------------------------- channel.go: readStream
TotalRead ==
    srcRead["i"]["d"] + srcRead["i"]["e"] + srcRead["o"]["d"]
        + srcRead["o"]["e"]

\* r.Read returned n bytes: readStream goes to send them on its channel
Read(dir, st) ==
    /\ ~panicked /\ rpc[dir][st] = "read" /\ ~srcEOF[SrcOf(dir)]
    /\ \E n \in 1..MaxChunk :
          /\ TotalRead + n <= MaxBytes
          /\ rbuf' = [rbuf EXCEPT ![dir][st] =
                         [k \in 1..n |-> srcRead[dir][st] + k]]
          /\ srcRead' = [srcRead EXCEPT ![dir][st] = @ + n]
    /\ rpc' = [rpc EXCEPT ![dir][st] = "send"]
    /\ UNCHANGED <<hcVars, chanVars, reqVars, chNil, delivered, wfail,
                   recVars, doneVars, wpc, panicked, glob, unitVars>>

\* readStream after its send was received: the next Read blocks, or returns
\* io.EOF at once when the source has ended
NextRead(dir) == IF srcEOF[SrcOf(dir)] THEN "closed" ELSE "read"

\* ------------------------------------------------- the ssh.Channel library
\* Write and WriteExtended succeed on a channel that is open and on which
\* no EOF was sent; SendRequest and Reply fail on a closed channel
CanWriteAfterEOF(c) == ~broken[c] /\ closes[c] = 0
CanWrite(c) == ~broken[c] /\ closes[c] = 0 /\ ~sentEOF[c]
SendFails(c) == broken[c] \/ closes[c] > 0

\* ------------------------------------------------------ request.go (2018)
\* ChannelRequestReceiver.SendRequest: ssh.Channel.SendRequest yields the
\* peer's ok alone; it is returned with a nil payload
ChannelRequestReceiverSendRequest(ok) == [ok |-> ok, b |-> <<>>]

\* ssh.Conn.SendRequest hands back the peer's answer as it is
ConnSendRequest(ok, payload) == [ok |-> ok, b |-> payload]

\* SendRequest of the ssh library waits for the peer's answer exactly when
\* wantReply is set; otherwise it returns (false, nil) once the request is
\* sent
SendRequestBlocks(r) == r.wantReply

\* a ProxyRequest that forwards the request and relays no answer
ProxyRequestReplyDropped(e, res) == <<>>

\* a ProxyRequest that relays the payload but always answers ok
ProxyRequestReplyTrue(e, res) ==
    IF ~e.req.wantReply THEN <<>>
    ELSE <<[id |-> e.id, ok |-> TRUE, payload |-> res.b]>>

\* a ProxyRequest without the early return for !r.WantReply
ProxyRequestReplyAlways(e, res) ==
    <<[id |-> e.id, ok |-> res.ok, payload |-> res.b]>>

\* ProxyRequest after rr.SendRequest returned without error: the Reply call
\* it makes on r, if any
ProxyRequestReply(e, res) ==
    IF ~e.req.wantReply THEN <<>>
    ELSE <<[id |-> e.id, ok |-> res.ok, payload |-> res.b]>>

\* -------------------------------------------------- channel.go: proxyChannel
AllNil(dir) == reqsNil[dir] /\ chNil[dir]["d"] /\ chNil[dir]["e"]
ReqReady(dir) ==
    ~reqsNil[dir] /\ (reqs[dir] # <<>> \/ reqsClosed[SrcOf(dir)])

\* the switch of handleChannelRequest: the LogFile afterwards, whether the
\* goroutine panicked, and whether d.CloseWrite() was called
Inspect(l, r) ==
    IF r.type = "eow@openssh.com"
    THEN [l |-> l, panic |-> FALSE, cw |-> TRUE]
    ELSE IF r.type = "pty-req"
    THEN LET p == ParsePTYPayload(l, r.payload, r.slack)
         IN  [l |-> p.l,
              panic |-> p.panic \/ (~p.err /\ PTYStringPanics(p.l)),
              cw |-> FALSE]
    ELSE IF r.type = "shell"
    THEN [l |-> Start(l, <<>>, Now).l, panic |-> FALSE, cw |-> FALSE]
    ELSE IF r.type = "exec"
    THEN [l |-> Start(l, r.payload, Now).l, panic |-> FALSE, cw |-> FALSE]
    ELSE [l |-> l, panic |-> FALSE, cw |-> FALSE]

\* a handleChannelRequest that sends no request of the silent set on
handleChannelRequestSilentDrop(l, r, m, dstFails) ==
    LET ins == Inspect(l, r)
        drop == dstFails \/ r.type \in m
    IN  [log |-> LogRequest(r, FALSE, m), l |-> ins.l, panic |-> ins.panic,
         cw |-> ins.cw,
         sent |-> ~ins.panic /\ ~drop,
         waits |-> ~ins.panic /\ ~drop /\ SendRequestBlocks(r),
         done |-> ~ins.panic /\ dstFails]

\* handleChannelRequest up to the SendRequest of ProxyRequest, with the
\* silent set m and a destination on which SendRequest fails or not: what
\* is logged, the LogFile, whether it panicked before forwarding, whether
\* d.CloseWrite() was called, whether the request was sent, whether
\* SendRequest then waits for the answer, and whether done is returned
handleChannelRequest(l, r, m, dstFails) ==
    LET ins == Inspect(l, r)
    IN  [log |-> LogRequest(r, FALSE, m), l |-> ins.l, panic |-> ins.panic,
         cw |-> ins.cw,
         sent |-> ~ins.panic /\ ~dstFails,
         waits |-> ~ins.panic /\ ~dstFails /\ SendRequestBlocks(r),
         done |-> ~ins.panic /\ dstFails]

\* requestCase with handleChannelRequest and the first half of ProxyRequest
RequestCase(dir) ==
    IF reqs[dir] = <<>>
    THEN /\ reqsNil' = [reqsNil EXCEPT ![dir] = TRUE]
         /\ wpc' = [wpc EXCEPT ![dir] = "outer"]
         /\ UNCHANGED <<hcVars, chanVars, reqs, discard, cur, nreq, arrived,
                        fwd, answers, replies, dataVars, recVars, doneVars,
                        panicked, glob, unitVars>>
    ELSE LET e == Head(reqs[dir])
             h == handleChannelRequest(lf, e.req, SilentChannelRequests,
                                       SendFails(DstOf(dir)))
         IN  /\ reqs' = [reqs EXCEPT ![dir] = Tail(@)]
             /\ nreq' = [nreq EXCEPT ![dir] = @ + 1]
             /\ lf' = h.l
             /\ sentEOF' = [sentEOF EXCEPT ![DstOf(dir)] = @ \/ h.cw]
             /\ UNCHANGED <<hcVars, closes, broken, srcEOF, reqsClosed,
                            arrived, answers, dataVars, file, doneVars,
                            glob, unitVars>>
             /\ IF h.panic
                THEN /\ panicked' = TRUE
                     /\ UNCHANGED <<reqsNil, discard, cur, fwd, replies, wpc>>
                ELSE /\ UNCHANGED panicked
                     /\ IF h.done
                        THEN /\ reqsNil' = [reqsNil EXCEPT ![dir] = TRUE]
                             /\ discard' = [discard EXCEPT ![dir] = TRUE]
                             /\ wpc' = [wpc EXCEPT ![dir] = "outer"]
                             /\ UNCHANGED <<cur, fwd, replies>>
                        ELSE /\ fwd' = [fwd EXCEPT ![dir] =
                                          IF h.sent THEN Append(@, e) ELSE @]
                             /\ UNCHANGED <<reqsNil, discard>>
                             /\ IF h.waits
                                THEN /\ cur' = [cur EXCEPT ![dir] = e]
                                     /\ wpc' = [wpc EXCEPT ![dir] = "wait"]
                                     /\ UNCHANGED replies
                                ELSE /\ UNCHANGED cur
                                     /\ wpc' = [wpc EXCEPT ![dir] = "outer"]
                                     /\ replies' = [replies EXCEPT ![dir] =
                                          @ \o ProxyRequestReply(e,
                                            ChannelRequestReceiverSendRequest(
                                              FALSE))]

\* a loop that ends as soon as the data stream of its source has ended
LoopExitOnEOF(dir) ==
    /\ ~panicked /\ wpc[dir] = "outer" /\ chNil[dir]["d"]
    /\ wpc' = [wpc EXCEPT ![dir] = "drain"]
    /\ UNCHANGED <<hcVars, chanVars, reqVars, dataVars, recVars, doneVars,
                   panicked, glob, unitVars>>

\* the loop condition fails: the deferred calls start
LoopExit(dir) ==
    /\ ~panicked /\ wpc[dir] = "outer" /\ AllNil(dir)
    /\ wpc' = [wpc EXCEPT ![dir] = "drain"]
    /\ UNCHANGED <<hcVars, chanVars, reqVars, dataVars, recVars, doneVars,
                   panicked, glob, unitVars>>

\* the outer select finds a request (or the closed request stream)
OuterRequest(dir) ==
    /\ ~panicked /\ wpc[dir] = "outer" /\ ~AllNil(dir) /\ ReqReady(dir)
    /\ RequestCase(dir)

\* a single select over requests and data: the worker goes on to its data
\* whether or not a request is ready
OuterDefaultAlways(dir) ==
    /\ ~panicked /\ wpc[dir] = "outer" /\ ~AllNil(dir)
    /\ wpc' = [wpc EXCEPT ![dir] = "inner"]
    /\ UNCHANGED <<hcVars, chanVars, reqVars, dataVars, recVars, doneVars,
                   panicked, glob, unitVars>>

\* the outer select takes its default branch
OuterDefault(dir) ==
    /\ ~panicked /\ wpc[dir] = "outer" /\ ~AllNil(dir) /\ ~ReqReady(dir)
    /\ wpc' = [wpc EXCEPT ![dir] = "inner"]
    /\ UNCHANGED <<hcVars, chanVars, reqVars, dataVars, recVars, doneVars,
                   panicked, glob, unitVars>>

\* the inner select receives from reqs
InnerRequest(dir) ==
    /\ ~panicked /\ wpc[dir] = "inner" /\ ReqReady(dir)
    /\ RequestCase(dir)

\* ProxyRequest, second half: the destination's peer answered (ok, payload);
\* the answer goes back with r.Reply, which fails on a closed source channel
ReplyArrives(dir) ==
    /\ ~panicked /\ wpc[dir] = "wait" /\ ~SendFails(DstOf(dir))
    /\ \E ok \in BOOLEAN :
          LET res == ChannelRequestReceiverSendRequest(ok)
          IN  /\ answers' = [answers EXCEPT ![dir] =
                     Append(@, [id |-> cur[dir].id, ok |-> ok,
                                payload |-> <<>>])]
              /\ IF SendFails(SrcOf(dir))
                 THEN /\ reqsNil' = [reqsNil EXCEPT ![dir] = TRUE]
                      /\ discard' = [discard EXCEPT ![dir] = TRUE]
                      /\ UNCHANGED replies
                 ELSE /\ replies' = [replies EXCEPT ![dir] =
                                        @ \o ProxyRequestReply(cur[dir], res)]
                      /\ UNCHANGED <<reqsNil, discard>>
    /\ cur' = [cur EXCEPT ![dir] = NoReq]
    /\ wpc' = [wpc EXCEPT ![dir] = "outer"]
    /\ UNCHANGED <<hcVars, chanVars, reqs, nreq, arrived, fwd, dataVars,
                   recVars, doneVars, panicked, glob, unitVars>>

\* ProxyRequest, second half: SendRequest returned an error because the
\* destination channel went away; handleChannelRequest reports done
ReplyFails(dir) ==
    /\ ~panicked /\ wpc[dir] = "wait" /\ SendFails(DstOf(dir))
    /\ reqsNil' = [reqsNil EXCEPT ![dir] = TRUE]
    /\ discard' = [discard EXCEPT ![dir] = TRUE]
    /\ cur' = [cur EXCEPT ![dir] = NoReq]
    /\ wpc' = [wpc EXCEPT ![dir] = "outer"]
    /\ UNCHANGED <<hcVars, chanVars, reqs, nreq, arrived, fwd, answers,
                   replies, dataVars, recVars, doneVars, panicked, glob,
                   unitVars>>

\* ssh.DiscardRequests answers false to a request that wants a reply
Discard(dir) ==
    /\ ~panicked /\ discard[dir] /\ reqs[dir] # <<>>
    /\ reqs' = [reqs EXCEPT ![dir] = Tail(@)]
    /\ replies' = [replies EXCEPT ![dir] =
          IF Head(reqs[dir]).req.wantReply /\ ~SendFails(SrcOf(dir))
          THEN Append(@, [id |-> Head(reqs[dir]).id, ok |-> FALSE,
                          payload |-> <<>>])
          ELSE @]
    /\ UNCHANGED <<hcVars, chanVars, reqsNil, discard, cur, nreq, arrived, fwd,
                   answers, dataVars, recVars, doneVars, wpc, panicked, glob,
                   unitVars>>

\* a MultiWriter that goes on after the recorder's error and reports none
MultiWriterWriteSwallow(l, fl, b, dir, fs, c, k) ==
    LET rec == WriteShell(l, fl, b, dir, fs)
    IN  IF rec.err \/ rec.n # Len(b)
        THEN [l |-> rec.l, file |-> rec.file, written |-> <<>>,
              err |-> FALSE, dstFailed |-> FALSE]
        ELSE IF CanWrite(c)
        THEN [l |-> rec.l, file |-> rec.file, written |-> b,
              err |-> FALSE, dstFailed |-> FALSE]
        ELSE [l |-> rec.l, file |-> rec.file,
              written |-> IF sentEOF[c] THEN <<>> ELSE SubSeq(b, 1, k),
              err |-> TRUE, dstFailed |-> TRUE]

\* io.MultiWriter(lf.DirectionWriter(dir), d).Write(b): the recorder first;
\* an error or a short count from it returns at once, before d is written.
\* fs is the file system's answer, k the bytes a failing write to a broken
\* destination still got out (none after CloseWrite: Write then returns
\* 0, io.EOF before it sends anything).
MultiWriterWrite(l, fl, b, dir, fs, c, k) ==
    LET rec == WriteShell(l, fl, b, dir, fs)
    IN  IF rec.err \/ rec.n # Len(b)
        THEN [l |-> rec.l, file |-> rec.file, written |-> <<>>,
              err |-> TRUE, dstFailed |-> FALSE]
        ELSE IF CanWrite(c)
        THEN [l |-> rec.l, file |-> rec.file, written |-> b,
              err |-> FALSE, dstFailed |-> FALSE]
        ELSE [l |-> rec.l, file |-> rec.file,
              written |-> IF sentEOF[c] THEN <<>> ELSE SubSeq(b, 1, k),
              err |-> TRUE, dstFailed |-> TRUE]

\* the inner select receives from ich (st = "d") or ech (st = "e"):
\* readCase, and for ich the CloseWrite once ich is nil
InnerData(dir, st) ==
    /\ ~panicked /\ wpc[dir] = "inner" /\ ~chNil[dir][st]
    /\ rpc[dir][st] \in {"send", "closed"}
    /\ IF rpc[dir][st] = "closed"
       THEN /\ chNil' = [chNil EXCEPT ![dir][st] = TRUE]
            /\ sentEOF' = [sentEOF EXCEPT ![DstOf(dir)] = @ \/ st = "d"]
            /\ UNCHANGED <<rpc, rbuf, delivered, wfail, recVars>>
       ELSE \E fs \in FsOutcomes, k \in 0..(MaxChunk - 1) :
              LET b == rbuf[dir][st]
                  w == MultiWriterWrite(lf, file, b, dir, fs, DstOf(dir), k)
              IN  /\ k < Len(b)
                  /\ (k > 0) => (w.dstFailed /\ broken[DstOf(dir)])
                  /\ lf' = w.l /\ file' = w.file
                  /\ delivered' = [delivered EXCEPT ![dir][st] =
                                      @ \o w.written]
                  /\ wfail' = [wfail EXCEPT ![dir][st] = @ \/ w.dstFailed]
                  /\ chNil' = [chNil EXCEPT ![dir][st] = w.err]
                  /\ sentEOF' = [sentEOF EXCEPT ![DstOf(dir)] =
                                    @ \/ (st = "d" /\ w.err)]
                  /\ rpc' = [rpc EXCEPT ![dir][st] = NextRead(dir)]
                  /\ rbuf' = [rbuf EXCEPT ![dir][st] = <<>>]
    /\ wpc' = [wpc EXCEPT ![dir] = "outer"]
    /\ UNCHANGED <<hcVars, closes, broken, srcEOF, reqsClosed, reqVars,
                   srcRead, doneVars, panicked, glob, unitVars>>

\* the stream a returning worker drains: drainStream(ech) runs to the end
\* of ech before drainStream(ich) starts
DrainOf(dir) == IF rpc[dir]["e"] = "closed" THEN "d" ELSE "e"

\* drainStream receives a chunk and drops it
DrainChunk(dir) ==
    /\ ~panicked /\ wpc[dir] = "drain"
    /\ rpc[dir][DrainOf(dir)] = "send"
    /\ rpc' = [rpc EXCEPT ![dir][DrainOf(dir)] = NextRead(dir)]
    /\ rbuf' = [rbuf EXCEPT ![dir][DrainOf(dir)] = <<>>]
    /\ UNCHANGED <<hcVars, chanVars, reqVars, chNil, srcRead, delivered,
                   wfail, recVars, doneVars, wpc, panicked, glob, unitVars>>

\* a done() without the sync.Once
DoneNoOnce(once, n) == [once |-> TRUE, n |-> n + 1]

\* done := func() { once.Do(func() { close(dch) }) }
Done(once, n) ==
    IF once THEN [once |-> TRUE, n |-> n] ELSE [once |-> TRUE, n |-> n + 1]

\* a proxyChannel that returns without the two drainStream calls
WorkerReturnNoDrain(dir) ==
    /\ ~panicked /\ wpc[dir] = "drain"
    /\ lf' = LogFileClose(lf)
    /\ onceDone' = Done(onceDone, dchCloses).once
    /\ dchCloses' = Done(onceDone, dchCloses).n
    /\ wpc' = [wpc EXCEPT ![dir] = "exited"]
    /\ UNCHANGED <<hcVars, chanVars, reqVars, dataVars, file, panicked, glob,
                   unitVars>>

\* both drainStream calls saw their channel closed; lf.Close() and done()
\* run and proxyChannel returns
WorkerReturn(dir) ==
    /\ ~panicked /\ wpc[dir] = "drain"
    /\ rpc[dir]["e"] = "closed" /\ rpc[dir]["d"] = "closed"
    /\ lf' = LogFileClose(lf)
    /\ onceDone' = Done(onceDone, dchCloses).once
    /\ dchCloses' = Done(onceDone, dchCloses).n
    /\ wpc' = [wpc EXCEPT ![dir] = "exited"]
    /\ UNCHANGED <<hcVars, chanVars, reqVars, dataVars, file, panicked, glob,
                   unitVars>>

\* ------------------------------------------------------- global requests
\* The session's multiplex loop hands every global request of one endpoint
\* to ProxyRequest with the other endpoint's ssh.Conn as the receiver.
GlobalReqs ==
    {Req("keepalive@openssh.com", TRUE, <<>>, <<>>),
     Req("tcpip-forward", TRUE, CmdLs, <<>>),
     Req("no-more-sessions@openssh.com", FALSE, <<>>, <<>>)}

othersUnchanged ==
    UNCHANGED <<hcVars, chanVars, reqVars, dataVars, recVars, doneVars, wpc,
                panicked, unitVars>>

\* a global request arrives
GlobalArrive ==
    /\ ~panicked /\ ~glob.down /\ TotalArrived < MaxReqs
    /\ \E r \in GlobalReqs :
          glob' = [glob EXCEPT !.arrived = @ + 1,
                               !.q = Append(@, [id |-> glob.arrived + 1,
                                                req |-> r])]
    /\ othersUnchanged

\* the connections of the session end
ConnDown ==
    /\ ~panicked /\ ~glob.down
    /\ glob' = [glob EXCEPT !.down = TRUE]
    /\ othersUnchanged

\* ProxyRequest(conn, r), first half: rr.SendRequest is called
GlobalForward ==
    /\ ~panicked /\ ~glob.wait /\ glob.q # <<>>
    /\ LET e == Head(glob.q)
       IN  glob' = IF glob.down THEN [glob EXCEPT !.q = Tail(@)]
                   ELSE IF SendRequestBlocks(e.req)
                   THEN [glob EXCEPT !.q = Tail(@), !.fwd = Append(@, e),
                                     !.wait = TRUE, !.cur = e]
                   ELSE [glob EXCEPT !.q = Tail(@), !.fwd = Append(@, e),
                                     !.replies = @ \o ProxyRequestReply(e,
                                         ConnSendRequest(FALSE, <<>>))]
    /\ othersUnchanged

\* ProxyRequest(conn, r), second half: SendRequest returned the peer's
\* answer, or an error once the connection is down
GlobalAnswer ==
    /\ ~panicked /\ glob.wait
    /\ IF glob.down
       THEN glob' = [glob EXCEPT !.wait = FALSE, !.cur = NoReq]
       ELSE \E ok \in BOOLEAN, payload \in {<<>>, <<7>>} :
              glob' = [glob EXCEPT
                         !.wait = FALSE, !.cur = NoReq,
                         !.answers = Append(@, [id |-> glob.cur.id,
                                                ok |-> ok,
                                                payload |-> payload]),
                         !.replies = @ \o ProxyRequestReply(glob.cur,
                                             ConnSendRequest(ok, payload))]
    /\ othersUnchanged

\* ------------------------------------------------------------ specification
ReqArriveAny(dir) == \E r \in AllReqs : Arrive(dir, r)

\* the state after a session's shell request went from the client to the
\* upstream and was answered: the recorder is started
ShellReq == [id |-> 1, req |-> Req("shell", TRUE, <<>>, <<>>)]
ShellAns == [id |-> 1, ok |-> TRUE, payload |-> <<>>]
DataInit ==
    /\ hc = "proxying" /\ nc = SessionOpen
    /\ ocCalls = <<OpenChannel(SessionOpen)>> /\ openErr = NoErr
    /\ ncCalls = <<[op |-> "Accept", reason |-> "", message |-> ""]>>
    /\ closes = [c \in Chans |-> 0] /\ sentEOF = [c \in Chans |-> FALSE]
    /\ broken = [c \in Chans |-> FALSE] /\ srcEOF = [c \in Chans |-> FALSE]
    /\ reqsClosed = [c \in Chans |-> FALSE]
    /\ wpc = [dir \in Dirs |-> "outer"]
    /\ reqs = [dir \in Dirs |-> <<>>] /\ reqsNil = [dir \in Dirs |-> FALSE]
    /\ discard = [dir \in Dirs |-> FALSE] /\ cur = [dir \in Dirs |-> NoReq]
    /\ nreq = [dir \in Dirs |-> IF dir = "i" THEN 1 ELSE 0]
    /\ arrived = [dir \in Dirs |-> IF dir = "i" THEN 1 ELSE 0]
    /\ fwd = [dir \in Dirs |-> IF dir = "i" THEN <<ShellReq>> ELSE <<>>]
    /\ answers = [dir \in Dirs |-> IF dir = "i" THEN <<ShellAns>> ELSE <<>>]
    /\ replies = [dir \in Dirs |-> IF dir = "i" THEN <<ShellAns>> ELSE <<>>]
    /\ rpc = PerStream("read") /\ rbuf = PerStream(<<>>)
    /\ chNil = PerStream(FALSE) /\ srcRead = PerStream(0)
    /\ delivered = PerStream(<<>>) /\ wfail = PerStream(FALSE)
    /\ lf = Start(NewLogFile, <<>>, Now).l /\ file = NoFile
    /\ panicked = FALSE /\ dchCloses = 0 /\ onceDone = FALSE
    /\ glob = NoGlobals /\ UnitInit

\* a channel pair from the channel-open on, with requests in both
\* directions and data from the client
Next ==
    \/ \E r \in Reasons, m \in Messages : OpenRejected(r, m)
    \/ \E m \in Messages : OpenFailed(m)
    \/ OpenOK
    \/ AcceptFailed
    \/ AcceptOK
    \/ Teardown
    \/ \E c \in Chans : PeerEOF(c)
    \/ \E c \in Chans : PeerClose(c)
    \/ \E dir \in Dirs : ReqArrive(dir)
    \/ Read("i", "d")
    \/ \E dir \in Dirs : LoopExit(dir)
    \/ \E dir \in Dirs : OuterRequest(dir)
    \/ \E dir \in Dirs : OuterDefault(dir)
    \/ \E dir \in Dirs : InnerRequest(dir)
    \/ \E dir \in Dirs : ReplyArrives(dir)
    \/ \E dir \in Dirs : ReplyFails(dir)
    \/ \E dir \in Dirs, st \in Streams : InnerData(dir, st)
    \/ \E dir \in Dirs : DrainChunk(dir)
    \/ \E dir \in Dirs : WorkerReturn(dir)

Spec == Init /\ [][Next]_vars

\* a channel pair whose recorder is started, carrying data only
DataNext ==
    \/ Teardown
    \/ \E c \in Chans : PeerEOF(c)
    \/ \E c \in Chans : PeerClose(c)
    \/ \E dir \in Dirs, st \in Streams : Read(dir, st)
    \/ \E dir \in Dirs : LoopExit(dir)
    \/ \E dir \in Dirs : OuterRequest(dir)
    \/ \E dir \in Dirs : OuterDefault(dir)
    \/ \E dir \in Dirs : InnerRequest(dir)
    \/ \E dir \in Dirs, st \in Streams : InnerData(dir, st)
    \/ \E dir \in Dirs : DrainChunk(dir)
    \/ \E dir \in Dirs : WorkerReturn(dir)

DataSpec == DataInit /\ [][DataNext]_vars

\* a channel pair and the global requests, with every shape of request and
\* no data
ReqNext ==
    \/ \E r \in Reasons, m \in Messages : OpenRejected(r, m)
    \/ \E m \in Messages : OpenFailed(m)
    \/ OpenOK
    \/ AcceptFailed
    \/ AcceptOK
    \/ Teardown
    \/ \E c \in Chans : PeerClose(c)
    \/ \E dir \in Dirs : ReqArriveAny(dir)
    \/ \E dir \in Dirs : LateArrive(dir)
    \/ \E dir \in Dirs : LoopExit(dir)
    \/ \E dir \in Dirs : OuterRequest(dir)
    \/ \E dir \in Dirs : OuterDefault(dir)
    \/ \E dir \in Dirs : InnerRequest(dir)
    \/ \E dir \in Dirs : ReplyArrives(dir)
    \/ \E dir \in Dirs : ReplyFails(dir)
    \/ \E dir \in Dirs : Discard(dir)
    \/ \E dir \in Dirs, st \in Streams : InnerData(dir, st)
    \/ \E dir \in Dirs : WorkerReturn(dir)
    \/ GlobalArrive
    \/ ConnDown
    \/ GlobalForward
    \/ GlobalAnswer

ReqSpec == Init /\ [][ReqNext]_vars

\* the steps of the proxyChannel goroutine of dir: Go schedules a goroutine
\* that can run, and a SendRequest on a closed channel returns
WorkerStep(dir) ==
    \/ LoopExit(dir)
    \/ OuterRequest(dir)
    \/ OuterDefault(dir)
    \/ InnerRequest(dir)
    \/ ReplyFails(dir)
    \/ \E st \in Streams : InnerData(dir, st)
    \/ DrainChunk(dir)
    \/ WorkerReturn(dir)

\* Spec with the goroutines of the proxy scheduled fairly; the peers stay
\* free to answer a request or not
FairSpec ==
    /\ Spec
    /\ \A dir \in Dirs : WF_vars(WorkerStep(dir))
    /\ WF_vars(Teardown)

\* ------------------------------------------------------------------ claims
SeqOf(n) == [k \in 1..n |-> k]
InFlight(dir, st) == IF rpc[dir][st] = "send" THEN rbuf[dir][st] ELSE <<>>

\* C1: for each direction and stream, unless a write to the destination
\* failed, the bytes written to the opposite channel followed by the chunk
\* in flight are exactly the bytes read from the source, in order: no chunk
\* is dropped.
C1_EveryByteForwarded ==
    \A dir \in Dirs, st \in Streams :
        ~wfail[dir][st] =>
            delivered[dir][st] \o InFlight(dir, st) = SeqOf(srcRead[dir][st])

\* C2: whenever a worker takes a chunk from a stream, the chunk is written
\* to the opposite channel and the stream stays in the loop, unless that
\* write itself failed: what the recorder returned plays no part.
C2_RecorderNeverFailsProxy ==
    [][\A dir \in Dirs, st \in Streams :
         (/\ wpc[dir] = "inner" /\ wpc'[dir] = "outer"
          /\ rpc[dir][st] = "send" /\ rbuf'[dir][st] = <<>>)
         => \/ wfail'[dir][st]
            \/ /\ delivered'[dir][st] = delivered[dir][st] \o rbuf[dir][st]
               /\ ~chNil'[dir][st]]_vars

RECURSIVE EventBytes(_)
EventBytes(lines) ==
    IF lines = <<>> THEN 0
    ELSE (IF Head(lines).kind = "E" THEN Head(lines).bytes ELSE 0)
         + EventBytes(Tail(lines))

\* C3: the bytes of the event lines of the recording (the header line left
\* out) never add up to more than log-max.
C3_EventBytesWithinMax == EventBytes(file.lines) <= LogMax

\* C4: no pty-req payload makes a goroutine of the proxy panic.
C4_NoPtyPanic == ~panicked

RepliesTo(seq, id) == {k \in 1..Len(seq) : seq[k].id = id}

\* C5: a request that wanted a reply, was forwarded and was answered
\* (ok, payload) by the peer gets exactly one reply: (ok, payload) when the
\* receiver is a connection, (ok, empty payload) when it is a channel; on a
\* channel the reply is missing only if the requester's channel is gone.
C5_OneReplyRelayed ==
    /\ \A dir \in Dirs : \A k \in 1..Len(answers[dir]) :
          LET a == answers[dir][k]
              rs == RepliesTo(replies[dir], a.id)
          IN  \/ /\ Cardinality(rs) = 1
                 /\ \A j \in rs : replies[dir][j] =
                        [id |-> a.id, ok |-> a.ok, payload |-> <<>>]
              \/ rs = {} /\ SendFails(SrcOf(dir))
    /\ \A k \in 1..Len(glob.answers) :
          LET rs == RepliesTo(glob.replies, glob.answers[k].id)
          IN  /\ Cardinality(rs) = 1
              /\ \A j \in rs : glob.replies[j] = glob.answers[k]

\* C5 witness: the upstream answered a channel request of the client with
\* success and the client got its reply
C5_Witness ==
    /\ answers["i"] # <<>> /\ answers["i"][1].ok
    /\ replies["i"] # <<>> /\ replies["i"][1].ok

C7_RejectedWithSameReason ==
    openErr.kind = "oce" =>
        /\ ncCalls = <<[op |-> "Reject", reason |-> openErr.reason,
                        message |-> openErr.message]>>
        /\ hc = "returned"
        /\ \A dir \in Dirs : wpc[dir] = "idle"
        /\ \A dir \in Dirs, st \in Streams : rpc[dir][st] = "idle"
        /\ \A c \in Chans : closes[c] = 0

\* C7 witness: an open refused as an unknown channel type was handled
C7_Witness ==
    /\ openErr = [kind |-> "oce", reason |-> "UnknownChannelType",
                  message |-> "x11 disabled"]
    /\ hc = "returned"

\* C8: once HandleChannel has returned from a failed open, the incoming
\* channel was answered: with the error's own reason and message, or with
\* Prohibited and the error's message when the error has no structure.
C8_EveryOpenAnswered ==
    (hc = "returned" /\ openErr.kind # "none") =>
        ncCalls = <<rejectChannel(openErr)>>

BothClosed == \A c \in Chans : closes[c] = 1

\* C9 as stated: no channel is closed twice, and once a side has closed
\* its channel of a pair, the proxy closes both channels of the pair.
C9_BothClosedOnce ==
    /\ [](\A c \in Chans : closes[c] <= 1)
    /\ \A c \in Chans : (Paired /\ broken[c]) ~> BothClosed

\* C9: no channel is closed twice, a pair that was torn down has both
\* channels closed, and once a side has closed its channel of a pair the
\* proxy closes both, unless the worker reading from that side stays
\* blocked for ever in a request its peer does not answer.
C9_BothClosedUnlessBlocked ==
    /\ [](\A c \in Chans : closes[c] <= 1)
    /\ [](hc = "closed" => BothClosed)
    /\ \A dir \in Dirs :
          (Paired /\ broken[SrcOf(dir)])
              ~> (BothClosed \/ [](wpc[dir] = "wait"))

\* C9 witness: the client closed its channel and the proxy closed both
C9_Witness == broken["ich"] /\ ~broken["pch"] /\ hc = "closed" /\ BothClosed

\* C10: close(dch) runs at most once; it has run when a worker has exited,
\* and never before; a later done() changes nothing; the proxy closes no
\* channel of a pair before it; and after the first exit both channels get
\* closed.
C10_DoneOnce ==
    /\ [](dchCloses <= 1)
    /\ []((\E dir \in Dirs : wpc[dir] = "exited") <=> dchCloses = 1)
    /\ []((Paired /\ \E c \in Chans : closes[c] > 0) => dchCloses = 1)
    /\ [][onceDone => (dchCloses' = dchCloses /\ onceDone')]_vars
    /\ (\E dir \in Dirs : wpc[dir] = "exited") ~> BothClosed

\* C10 witness: both workers have exited, dch was closed once and the pair
\* is torn down
C10_Witness ==
    /\ \A dir \in Dirs : wpc[dir] = "exited"
    /\ dchCloses = 1 /\ BothClosed

\* C11: once a worker has seen the end of its source's data stream it has
\* called CloseWrite on the opposite channel, and a stderr chunk it takes
\* afterwards (or at any time) is still written to the opposite channel, as
\* long as that channel is open and the recorder has not stopped.
C11_HalfCloseKeepsStderr ==
    /\ [](\A dir \in Dirs : chNil[dir]["d"] => sentEOF[DstOf(dir)])
    /\ [][\A dir \in Dirs :
            (/\ wpc[dir] = "inner" /\ wpc'[dir] = "outer"
             /\ rpc[dir]["e"] = "send" /\ rbuf'[dir]["e"] = <<>>
             /\ ~SendFails(DstOf(dir)) /\ ~lf'.done)
            => delivered'[dir]["e"] = delivered[dir]["e"] \o rbuf[dir]["e"]]_vars

\* C12: once the forwarding of a request has failed in a direction (the
\* worker handed its request stream to ssh.DiscardRequests), nothing more
\* is proxied in that direction: no request is forwarded and no write of
\* data or stderr bytes to the opposite channel succeeds.
C12_FailedForwardEndsDirection ==
    [][\A dir \in Dirs :
          discard[dir] =>
              /\ fwd'[dir] = fwd[dir]
              /\ \A st \in Streams :
                    \/ delivered'[dir][st] = delivered[dir][st]
                    \/ wfail'[dir][st] /\ ~wfail[dir][st]]_vars

\* C13: unless the forwarding failed in the direction, every request the
\* worker has taken from its request stream was sent to the opposite
\* channel exactly once, as it arrived and in the order of arrival.
C13_EveryRequestForwardedOnce ==
    \A dir \in Dirs :
        ~discard[dir] =>
            /\ Len(fwd[dir]) = nreq[dir]
            /\ \A k \in 1..Len(fwd[dir]) : fwd[dir][k].id = k

\* ---------------------------------------------------------------------
\* Two request handlers side by side: the same requests, the same answers
\* of the peer, two silent sets (-silent-channel-requests)

\* what the destination and the source do with one forwarded request
Outcomes == {"answered", "sendFails", "answerFails", "replyFails"}

\* requestCase, handleChannelRequest and ProxyRequest for one request r of
\* a handler whose silent set is m: the peer answers ok, or d.SendRequest
\* fails at once, or fails while waiting, or req.Reply fails
RunStep(run, r, m, out, ok) ==
    IF run.done \/ run.panicked THEN run
    ELSE LET h == handleChannelRequest(run.l, r, m, out = "sendFails")
             e == [id |-> run.nreq + 1, req |-> r]
             lost == h.waits /\ out \in {"answerFails", "replyFails"}
         IN  [l |-> h.l, cw |-> run.cw \/ h.cw, log |-> run.log \o h.log,
              nreq |-> run.nreq + 1, panicked |-> h.panic,
              fwd |-> IF h.sent THEN Append(run.fwd, e) ELSE run.fwd,
              replies |->
                  IF h.sent /\ ~lost
                  THEN run.replies \o ProxyRequestReply(e,
                           ChannelRequestReceiverSendRequest(h.waits /\ ok))
                  ELSE run.replies,
              done |-> h.done \/ lost]

\* one request reaches both handlers
TwinRequest ==
    /\ twin.n < MaxTwin
    /\ \E r \in AllReqs, out \in Outcomes, ok \in BOOLEAN :
          twin' = [twin EXCEPT !.n = @ + 1,
                               !.a = RunStep(@, r, twin.ma, out, ok),
                               !.b = RunStep(@, r, twin.mb, out, ok)]
    /\ UNCHANGED butTwin

SilentInit ==
    /\ InitBase /\ obj = NoObj /\ auth = NoAuth /\ sess = NoSess
    /\ acc = NoAcc /\ keys = NoKeys /\ mu = NoMu
    /\ opened = NoPair
    /\ twin \in {[NoTwin EXCEPT !.ma = x, !.mb = y] : x, y \in SilentSets}

SilentNext == TwinRequest

SilentSpec == SilentInit /\ [][SilentNext]_vars

\* C14: two runs that differ only in the silent sets forward the same
\* requests (type, want_reply, payload, in the same order), return the
\* same replies, and leave the recorder and the channel in the same state
C14_SilentSetsOnlyAffectLogging ==
    /\ twin.a.fwd = twin.b.fwd
    /\ twin.a.replies = twin.b.replies
    /\ twin.a.l = twin.b.l
    /\ twin.a.cw = twin.b.cw
    /\ twin.a.done = twin.b.done
    /\ twin.a.panicked = twin.b.panicked

\* two requests forwarded by both handlers, logged by one and not by the
\* other
C14_Witness ==
    /\ Len(twin.a.fwd) = MaxTwin
    /\ twin.a.log = <<>>
    /\ Len(twin.b.log) = MaxTwin

\* the lines of one kind in the recording file
LinesOfKind(k) == {i \in 1..Len(file.lines) : file.lines[i].kind = k}

\* C15: the recording file contains a header line exactly when it
\* contains at least one event line, and never more than one header line
C15_HeaderIffEvent ==
    /\ (LinesOfKind("H") # {}) <=> (LinesOfKind("E") # {})
    /\ Cardinality(LinesOfKind("H")) <= 1

\* C16: the recorder's done state is absorbing.  Once done is set (cap
\* exceeded, file error or Close) no file is open, no step changes the
\* recorder or the file again, and every Write returns the full length
\* and no error without writing
C16_DoneAbsorbing ==
    /\ [](lf.done =>
            /\ lf.f # "open"
            /\ \A b \in Chunks, d \in Dirs, fs \in FsOutcomes :
                  WriteShell(lf, file, b, d, fs) =
                      [l |-> lf, file |-> file, n |-> Len(b), err |-> FALSE])
    /\ [][lf.done => lf' = lf /\ file' = file]_vars

\* the recorder is started and done, data was written on, and the file
\* has no line: a Write before done would have left its event line, so
\* this Write came after done was set
C16_Witness ==
    /\ lf.start # ZeroTime /\ lf.done
    /\ file.lines = <<>>
    /\ \E dir \in Dirs : delivered[dir]["d"] # <<>>

\* ---------------------------------------------------------------------
\* One LogFile, its methods called in any order: handleChannelRequest
\* calls Start for every shell and exec request, the two MultiWriters call
\* Write for every chunk, and each worker's deferred lf.Close() runs while
\* the other worker may still call all of them

\* the commands of exec requests ("" for a shell)
Commands == {<<>>, CmdLs}

\* the record of one call: the LogFile and the file after it, its
\* arguments and results, the LogFile and the file before it
Called(name, l, fl, command, b, n, err) ==
    [l |-> l, file |-> fl, call |-> name, command |-> command, b |-> b,
     n |-> n, err |-> err, was |-> obj.l, wasFile |-> obj.file,
     calls |-> obj.calls + 1, parsed |-> obj.parsed]

\* lf.Start(command); the clock has advanced with every call
CallStart ==
    /\ obj.calls < MaxCalls
    /\ \E c \in Commands :
          LET r == Start(obj.l, c, obj.calls + 1)
          IN  obj' = Called("Start", r.l, obj.file, c, <<>>, 0, r.err)
    /\ UNCHANGED butObj

\* logFileWriter{l, d}.Write(b)
CallWrite ==
    /\ obj.calls < MaxCalls
    /\ \E b \in Chunks, d \in Dirs, fs \in FsOutcomes :
          LET r == WriteShell(obj.l, obj.file, b, d, fs)
          IN  obj' = Called("Write", r.l, r.file, <<>>, b, r.n, r.err)
    /\ UNCHANGED butObj

\* lf.Close()
CallClose ==
    /\ obj.calls < MaxCalls
    /\ obj' = Called("Close", LogFileClose(obj.l), obj.file, <<>>, <<>>, 0,
                     FALSE)
    /\ UNCHANGED butObj

LogFileInit == InitBase /\ UnitInit

LogFileNext == CallStart \/ CallWrite \/ CallClose

LogFileSpec == LogFileInit /\ [][LogFileNext]_vars

\* C17: Start succeeds exactly when the LogFile is neither started nor
\* done, and then stores the command and the start time; a second Start
\* and a Start after done return an error and leave the LogFile, with its
\* start time and command, as it was
C17_StartOnlyOnce ==
    obj.call = "Start" =>
        /\ obj.err <=> (obj.was.done \/ obj.was.start # ZeroTime)
        /\ obj.err => obj.l = obj.was
        /\ ~obj.err =>
              obj.l = [obj.was EXCEPT !.command = obj.command,
                                      !.start = obj.calls]

\* a refused second Start with another command
C17_Witness ==
    /\ obj.call = "Start" /\ obj.err
    /\ ~obj.was.done /\ obj.was.start # ZeroTime
    /\ obj.command # obj.was.command

StrOf(chars, n) == UNION {[1..k -> chars] : k \in 0..n}
Has(s, ch) == \E i \in 1..Len(s) : s[i] = ch

\* strings.Split(l, ","): the fields between the commas
RECURSIVE SplitComma(_)
SplitComma(l) ==
    IF ~Has(l, ",") THEN <<l>>
    ELSE LET i == CHOOSE k \in 1..Len(l) :
                      l[k] = "," /\ \A j \in 1..(k - 1) : l[j] # ","
         IN  <<SubSeq(l, 1, i - 1)>> \o SplitComma(SubSeq(l, i + 1, Len(l)))

\* strings.TrimSpace
RECURSIVE TrimSpace(_)
TrimSpace(v) ==
    IF v = <<>> THEN v
    ELSE IF Head(v) = " " THEN TrimSpace(Tail(v))
    ELSE IF v[Len(v)] = " " THEN TrimSpace(SubSeq(v, 1, Len(v) - 1))
    ELSE v

\* parseCommaList: the set of trimmed, non-empty fields
parseCommaList(l) ==
    LET f == SplitComma(l)
    IN  {TrimSpace(f[i]) : i \in 1..Len(f)} \ {<<>>}

\* a split at the last colon
SplitLastColon(pair) ==
    IF ~Has(pair, ":") THEN <<pair>>
    ELSE LET i == CHOOSE k \in 1..Len(pair) :
                      pair[k] = ":" /\ \A j \in (k + 1)..Len(pair) :
                                          pair[j] # ":"
         IN  <<SubSeq(pair, 1, i - 1), SubSeq(pair, i + 1, Len(pair))>>

\* strings.SplitN(pair, ":", 2): a split at the first colon
SplitN2(pair) ==
    IF ~Has(pair, ":") THEN <<pair>>
    ELSE LET i == CHOOSE k \in 1..Len(pair) :
                      pair[k] = ":" /\ \A j \in 1..(k - 1) : pair[j] # ":"
         IN  <<SubSeq(pair, 1, i - 1), SubSeq(pair, i + 1, Len(pair))>>

\* parseCreds: log.Fatalf for a pair without a colon, else the map from
\* each user name to its set of passwords
parseCreds(l) ==
    LET pairs == parseCommaList(l)
        ret == [u \in {SplitN2(p)[1] : p \in pairs} |->
                   {SplitN2(p)[2] : p \in {q \in pairs : SplitN2(q)[1] = u}}]
    IN  IF \E p \in pairs : Len(SplitN2(p)) # 2
        THEN [fatal |-> TRUE, creds |-> <<>>]
        ELSE [fatal |-> FALSE, creds |-> ret]

\* PasswordCallback of MakeServerConfig: nil, nil (TRUE) or
\* ErrPermissionDenied (FALSE)
PasswordCallback(creds, user, password) ==
    IF user \notin DOMAIN creds THEN FALSE
    ELSE IF password \notin creds[user] THEN FALSE
    ELSE TRUE

\* the methods a client may try; MakeServerConfig sets PasswordCallback
\* and no other callback and leaves NoClientAuth false, so the server
\* refuses every other method without asking the program
Methods == {"none", "password", "publickey", "keyboard-interactive"}

ServerAuth(creds, method, user, password) ==
    method = "password" /\ PasswordCallback(creds, user, password)

\* main: creds := parseCreds(*credsList), fatal when no pair is given
ParseCreds ==
    /\ ~auth.parsed
    /\ LET r == parseCreds(auth.list)
       IN  auth' = [auth EXCEPT !.parsed = TRUE, !.creds = r.creds,
                       !.fatal = r.fatal \/ DOMAIN r.creds = {}]
    /\ UNCHANGED butAuth

\* a client offers a credential; the callback keeps no state between
\* attempts, so one attempt is followed per run
Attempt ==
    /\ auth.parsed /\ ~auth.fatal /\ ~auth.tried
    /\ \E m \in Methods, u \in StrOf({"r", ":", " "}, MaxName),
          pw \in StrOf({"r", ":", " "}, MaxName) :
          /\ m # "password" => pw = <<>>
          /\ auth' = [auth EXCEPT !.tried = TRUE, !.method = m, !.user = u,
                         !.password = pw,
                         !.accepted = ServerAuth(auth.creds, m, u, pw)]
    /\ UNCHANGED butAuth

CredsInit ==
    /\ InitBase /\ twin = NoTwin /\ obj = NoObj /\ sess = NoSess
    /\ acc = NoAcc /\ keys = NoKeys /\ mu = NoMu
    /\ opened = NoPair
    /\ auth \in {[NoAuth EXCEPT !.list = l] :
                    l \in StrOf({"r", ":", ",", " "}, MaxList)}

CredsNext == ParseCreds \/ Attempt

CredsSpec == CredsInit /\ [][CredsNext]_vars

\* C19: an authentication attempt is accepted exactly when it is a
\* password attempt and the -creds list has a pair that reads user, colon,
\* password with no colon in the user name (the pair's first colon is the
\* separator); no other method and no other credential is accepted
C19_AcceptIffInCreds ==
    auth.tried =>
        (auth.accepted <=>
            /\ auth.method = "password"
            /\ ~Has(auth.user, ":")
            /\ auth.user \o <<":">> \o auth.password
                   \in parseCommaList(auth.list))

\* an accepted password that contains a colon
C19_Witness ==
    /\ auth.tried /\ auth.accepted
    /\ Has(auth.password, ":")

\* ---------------------------------------------------------------------
\* handle for one incoming connection, in its two versions: handle.go
\* with the server configuration of makeServerConfig ("handle"), and the
\* earlier handle with dialVictim ("victim")

\* passwordCallback: an allowed password, or any password when the dice
\* roll says so
passwordCallback(known, dice) == known \/ dice

\* keyboardInteractiveCallback: the same test on the one answer
keyboardInteractiveCallback(known, dice) == known \/ dice

\* publicKeyCallback: always "Permission denied"
publicKeyCallback == FALSE

\* whether the server of makeServerConfig accepts an attempt
Accepts(noAuthNeeded, method, known, dice) ==
    CASE method = "none" -> noAuthNeeded
      [] method = "password" -> passwordCallback(known, dice)
      [] method = "keyboard-interactive" ->
             keyboardInteractiveCallback(known, dice)
      [] OTHER -> publicKeyCallback

\* the two connections of a session, by their names in handle.go: sc is
\* the SSH connection with the client, client the one with the upstream
Sides == {"sc", "client"}

\* the events the proxy goroutines dispatch: channel-opens and global
\* requests
Kinds == {"chan", "req"}

\* the client's TCP connection is closed: by c.Close(), by closing the
\* SSH connection on it, or because that connection ended
ClientTCPClosed == sess.closed \/ sess.scClosed \/ "sc" \in sess.ended

\* a side's SSH connection is down: closed by the proxy, or ended
Down(side) ==
    \/ side \in sess.ended
    \/ side = "sc" /\ (sess.scClosed \/ sess.closed)
    \/ side = "client" /\ sess.clientClosed

\* the client tries a method during ssh.NewServerConn; an accepted
\* attempt ends the handshake and NewServerConn returns no error
AuthTry ==
    /\ sess.pc = "handshake" /\ Len(sess.tried) < MaxTries
    /\ \E m \in Methods, known \in BOOLEAN, dice \in BOOLEAN :
          LET ok == Accepts(sess.noAuth, m, known, dice)
          IN  sess' = [sess EXCEPT
                          !.tried = Append(@, [method |-> m, ok |-> ok]),
                          !.estab = IF ok THEN {"sc"} ELSE @,
                          !.pc = IF ~ok THEN @
                                 ELSE IF sess.variant = "handle" THEN "logger"
                                 ELSE "dial"]
    /\ UNCHANGED butSess

\* NewServerConn returns an error (the client left, sent garbage or ran
\* out of attempts): c.Close() and return
HandshakeFails ==
    /\ sess.pc = "handshake"
    /\ sess' = [sess EXCEPT !.pc = "returned", !.closed = TRUE]
    /\ UNCHANGED butSess

\* connectionLogger; on its error handle returns and the deferred
\* sc.Close() and c.Close() run
ConnectionLogger ==
    /\ sess.variant = "handle" /\ sess.pc = "logger"
    /\ \E ok \in BOOLEAN :
          sess' = [sess EXCEPT !.pc = IF ok THEN "dial" ELSE "returned",
                               !.scClosed = ~ok, !.closed = ~ok]
    /\ UNCHANGED butSess

\* clientDial: net.Dial reaches the upstream server, then the SSH
\* handshake with it; on an error handle returns and the deferred
\* sc.Close() and c.Close() run
ClientDial ==
    /\ sess.variant = "handle" /\ sess.pc = "dial"
    /\ \E ok \in BOOLEAN :
          sess' = [sess EXCEPT !.upstream = @ + 1,
                               !.estab = IF ok THEN @ \cup {"client"} ELSE @,
                               !.pc = IF ok THEN "proxying" ELSE "returned",
                               !.scClosed = ~ok, !.closed = ~ok]
    /\ UNCHANGED butSess

\* dialVictim; on an error cc.Close() and return
DialVictim ==
    /\ sess.variant = "victim" /\ sess.pc = "dial"
    /\ \E ok \in BOOLEAN :
          sess' = [sess EXCEPT !.upstream = @ + 1,
                               !.estab = IF ok THEN @ \cup {"client"} ELSE @,
                               !.pc = IF ok THEN "proxying" ELSE "returned",
                               !.scClosed = ~ok]
    /\ UNCHANGED butSess

\* an established connection ends: its peer closed it or the transport
\* failed
EndpointEnds(side) ==
    /\ sess.pc # "returned"
    /\ side \in sess.estab /\ ~Down(side)
    /\ sess' = [sess EXCEPT !.ended = @ \cup {side}]
    /\ UNCHANGED butSess

\* the global requests a peer may send
ConnReqs ==
    {[type |-> t, wantReply |-> w] :
        t \in {"hostkeys-00@openssh.com", "no-more-sessions@openssh.com",
               "tcpip-forward"},
        w \in BOOLEAN}

\* a channel-open or a global request arrives on an established
\* connection and waits in its Go channel
EventArrives(k) ==
    /\ sess.pc # "returned" /\ sess.arrived < MaxEvents
    /\ \E side \in sess.estab : ~Down(side)
    /\ \E r \in ConnReqs :
          sess' = [sess EXCEPT
                     !.arrived = @ + 1, !.pend[k] = @ + 1,
                     !.reqs = IF k = "req" THEN Append(@, r) ELSE @]
    /\ UNCHANGED butSess

\* Baked in config: no-more-sessions messages are not relayed
IGNORENMS == TRUE

\* Requests we won't make
blockedReqs == {"no-more-sessions@openssh.com"}

\* handleRequest of request.go: what becomes of request r, the request
\* sent on with rable.SendRequest or nothing
handleRequest(r) ==
    IF IGNORENMS /\ r.type = "no-more-sessions@openssh.com"
    THEN [sent |-> <<>>, refused |-> <<>>]
    ELSE [sent |-> <<r>>, refused |-> <<>>]

\* handleRequest of the earlier request.go: a blocked request is answered
\* with r.Reply(false, nil) when it wants a reply, and is not sent on
handleRequestBlocked(r) ==
    IF r.type \in blockedReqs
    THEN [sent |-> <<>>, refused |-> IF r.wantReply THEN <<r>> ELSE <<>>]
    ELSE [sent |-> <<r>>, refused |-> <<>>]

\* the proxying goroutines started before the upstream is connected
DispatchEarly(k) ==
    /\ sess.pc \in {"dial", "proxying"} /\ sess.pend[k] > 0
    /\ IF k = "chan"
       THEN sess' = [sess EXCEPT !.pend[k] = @ - 1, !.disp = Append(@, k)]
       ELSE LET r == Head(sess.reqs)
            IN  sess' = [sess EXCEPT
                           !.pend[k] = @ - 1, !.disp = Append(@, k),
                           !.reqs = Tail(@), !.taken = Append(@, r),
                           !.sent = Append(@, r)]
    /\ UNCHANGED butSess

\* handleChans / handleReqs (handleNewChannels / handleConnRequests): the
\* goroutine of one kind takes its next event and proxies it
Dispatch(k) ==
    /\ sess.pc = "proxying" /\ sess.pend[k] > 0
    /\ IF k = "chan"
       THEN sess' = [sess EXCEPT !.pend[k] = @ - 1, !.disp = Append(@, k)]
       ELSE LET r == Head(sess.reqs)
                out == IF sess.variant = "handle" THEN handleRequest(r)
                       ELSE handleRequestBlocked(r)
            IN  sess' = [sess EXCEPT
                           !.pend[k] = @ - 1, !.disp = Append(@, k),
                           !.reqs = Tail(@), !.taken = Append(@, r),
                           !.sent = @ \o out.sent,
                           !.refused = @ \o out.refused]
    /\ UNCHANGED butSess

\* <-wc: a waitChan reported that one of the two connections ended; the
\* deferred client.Close(), sc.Close() and c.Close() run
SessionEnds ==
    /\ sess.variant = "handle" /\ sess.pc = "proxying"
    /\ sess.ended # {}
    /\ sess' = [sess EXCEPT !.pc = "returned", !.closed = TRUE,
                            !.scClosed = TRUE, !.clientClosed = TRUE]
    /\ UNCHANGED butSess

\* the goroutine of the earlier handle: c.Wait() on the connection with
\* the client, then v.Close() on the one with the upstream
VictimWaiter ==
    /\ sess.variant = "victim" /\ sess.pc \in {"proxying", "returned"}
    /\ "client" \in sess.estab /\ "sc" \in sess.ended
    /\ ~sess.clientClosed
    /\ sess' = [sess EXCEPT !.clientClosed = TRUE]
    /\ UNCHANGED butSess

\* the earlier handle: cc.Wait() returns, the deferred vc.Close() runs
VictimSessionEnds ==
    /\ sess.variant = "victim" /\ sess.pc = "proxying"
    /\ "sc" \in sess.ended
    /\ sess' = [sess EXCEPT !.pc = "returned", !.clientClosed = TRUE]
    /\ UNCHANGED butSess

HandleInit ==
    /\ InitBase /\ twin = NoTwin /\ obj = NoObj /\ auth = NoAuth
    /\ acc = NoAcc /\ keys = NoKeys /\ mu = NoMu
    /\ opened = NoPair
    /\ sess \in {[NoSess EXCEPT !.noAuth = a, !.variant = v] :
                    a \in BOOLEAN, v \in {"handle", "victim"}}

\* the steps of the proxy itself
HandleStep ==
    \/ ConnectionLogger \/ ClientDial \/ DialVictim
    \/ SessionEnds \/ VictimWaiter \/ VictimSessionEnds
    \/ \E k \in Kinds : Dispatch(k)

HandleNext ==
    \/ AuthTry \/ HandshakeFails
    \/ \E side \in Sides : EndpointEnds(side)
    \/ \E k \in Kinds : EventArrives(k)
    \/ HandleStep

HandleSpec == HandleInit /\ [][HandleNext]_vars

\* the goroutines of the proxy are scheduled; its peers owe nothing
FairHandleSpec ==
    /\ HandleSpec
    /\ WF_vars(ConnectionLogger) /\ WF_vars(ClientDial)
    /\ WF_vars(DialVictim) /\ WF_vars(SessionEnds)
    /\ WF_vars(VictimWaiter) /\ WF_vars(VictimSessionEnds)
    /\ \A k \in Kinds : WF_vars(Dispatch(k))

\* C20: the upstream server is dialled only after the client's handshake
\* has completed with a successful password authentication
C20_NoUpstreamBeforePasswordAuth ==
    sess.upstream > 0 =>
        \E k \in 1..Len(sess.tried) :
            sess.tried[k].method = "password" /\ sess.tried[k].ok

\* ---------------------------------------------------------------------
\* main's accept loop with its semaphore, and the sessions it starts

\* the completion callback main hands to Handle: func() { <-sem }
Release(a, c) ==
    [a EXCEPT !.sem = @ - 1, !.calls[c] = @ + 1]

\* a main that accepts without taking a slot
TakeSlotUnbounded ==
    /\ acc.pc = "sem"
    /\ acc' = [acc EXCEPT !.pc = "accept"]
    /\ UNCHANGED butAcc

\* sem <- struct{}{}: blocks while the semaphore holds max-clients slots
TakeSlot ==
    /\ acc.pc = "sem" /\ acc.sem < MaxClients
    /\ acc' = [acc EXCEPT !.sem = @ + 1, !.pc = "accept"]
    /\ UNCHANGED butAcc

\* l.Accept() returns the next connection: go Handle(c, ..., callback, ...)
Accept ==
    /\ acc.pc = "accept"
    /\ \E c \in Conns :
          /\ acc.state[c] = "none"
          /\ \A d \in Conns : d < c => acc.state[d] # "none"
          /\ acc' = [acc EXCEPT !.state[c] = "handshake", !.pc = "sem"]
    /\ UNCHANGED butAcc

\* l.Accept() fails: log.Fatalf ends the process
AcceptFails ==
    /\ acc.pc = "accept"
    /\ acc' = [acc EXCEPT !.pc = "fatal"]
    /\ UNCHANGED butAcc

\* the states of a session before it closes, in order
Stages == <<"handshake", "connect", "uphandshake", "proxying">>
StageNo(st) == CHOOSE k \in 1..Len(Stages) : Stages[k] = st
Running(st) == \E k \in 1..Len(Stages) : Stages[k] = st

\* a session completes a stage: client handshake, upstream connect,
\* upstream handshake
SessionStep(c) ==
    /\ acc.pc # "fatal" /\ Running(acc.state[c])
    /\ StageNo(acc.state[c]) < Len(Stages)
    /\ acc' = [acc EXCEPT !.state[c] = Stages[StageNo(@) + 1]]
    /\ UNCHANGED butAcc

\* an error or a timeout in any stage, or an endpoint that finished
\* while proxying: the session closes what it holds
SessionFail(c) ==
    /\ acc.pc # "fatal" /\ Running(acc.state[c])
    /\ acc' = [acc EXCEPT !.state[c] = "closing:" \o @]
    /\ UNCHANGED butAcc

\* a session that returns without invoking the callback
SessionDoneNoCallback(c) ==
    /\ acc.pc # "fatal" /\ ~Running(acc.state[c])
    /\ acc.state[c] \notin {"none"} \cup {"done:" \o Stages[k] :
                                             k \in 1..Len(Stages)}
    /\ acc' = [acc EXCEPT !.state[c] =
                  "done:" \o CHOOSE st \in {Stages[k] : k \in 1..Len(Stages)} :
                                 acc.state[c] = "closing:" \o st]
    /\ UNCHANGED butAcc

\* the session has closed everything and invokes the completion callback
SessionDone(c) ==
    /\ acc.pc # "fatal" /\ ~Running(acc.state[c])
    /\ acc.state[c] \notin {"none"} \cup {"done:" \o Stages[k] :
                                             k \in 1..Len(Stages)}
    /\ acc' = [Release(acc, c) EXCEPT !.state[c] =
                  "done:" \o CHOOSE st \in {Stages[k] : k \in 1..Len(Stages)} :
                                 acc.state[c] = "closing:" \o st]
    /\ UNCHANGED butAcc

AcceptInit == InitBase /\ UnitInit

AcceptNext ==
    \/ TakeSlot \/ Accept \/ AcceptFails
    \/ \E c \in Conns : SessionStep(c) \/ SessionFail(c) \/ SessionDone(c)

AcceptSpec == AcceptInit /\ [][AcceptNext]_vars

\* sessions that were accepted and have not finished
Finished(c) == \E k \in 1..Len(Stages) : acc.state[c] = "done:" \o Stages[k]
InFlightConns == {c \in Conns : acc.state[c] # "none" /\ ~Finished(c)}

\* C21: the completion callback of an accepted connection is invoked
\* exactly once, when its session finishes, whatever stage the session
\* left from: never before, never twice
C21_CallbackExactlyOnce ==
    \A c \in Conns :
        /\ acc.calls[c] <= 1
        /\ Finished(c) <=> acc.calls[c] = 1

\* three sessions finished, one after a failed client handshake, one
\* after a failed upstream connect, one after proxying; each callback
\* was invoked once
C21_Witness ==
    /\ \A c \in Conns : acc.calls[c] = 1
    /\ \E c \in Conns : acc.state[c] = "done:handshake"
    /\ \E c \in Conns : acc.state[c] = "done:connect"
    /\ \E c \in Conns : acc.state[c] = "done:proxying"

\* C22: the accepted connections whose session has not finished never
\* number more than max-clients.  The semaphore holds one slot for each
\* of them, and one more while main waits in Accept; main accepts nothing
\* while max-clients sessions are in flight; and a slot is freed only by
\* a step in which a session invokes its completion callback
C22_InFlightAtMostMaxClients ==
    /\ [](/\ Cardinality(InFlightConns) <= MaxClients
          /\ acc.sem = Cardinality(InFlightConns)
                          + (IF acc.pc = "sem" THEN 0 ELSE 1)
          /\ acc.sem <= MaxClients)
    /\ [][Cardinality(InFlightConns) = MaxClients =>
             \A c \in Conns :
                 acc.state[c] = "none" => acc'.state[c] = "none"]_vars
    /\ [][acc'.sem < acc.sem =>
             \E c \in Conns : /\ acc'.calls[c] = acc.calls[c] + 1
                              /\ acc'.sem = acc.sem - 1]_vars

\* max-clients sessions are in flight, a further connection is waiting
\* and main is blocked on the semaphore
C22_Witness ==
    /\ Cardinality(InFlightConns) = MaxClients
    /\ acc.pc = "sem" /\ acc.sem = MaxClients
    /\ \E c \in Conns : acc.state[c] = "none"

\* C23: when one of the two SSH connections of a proxying session has
\* ended, the session goes on to have both SSH connections and the
\* client's TCP connection down, without waiting for the other side to
\* end as well
C23_EitherEndClosesBoth ==
    (sess.pc = "proxying" /\ sess.ended # {})
        ~> (Down("sc") /\ Down("client") /\ ClientTCPClosed)

\* C24: whenever a channel-open and a global request are both pending,
\* the next event the session dispatches is the channel-open
C24_ChannelOpenFirst ==
    [][(sess.pend["chan"] > 0 /\ sess.pend["req"] > 0
            /\ sess'.disp # sess.disp)
          => sess'.disp = Append(sess.disp, "chan")]_vars

\* C25: every global request the session takes from either side, the
\* OpenSSH extensions included, is sent on to the opposite side, and none
\* is answered by the proxy itself
C25_EveryRequestPassedThrough ==
    sess.sent = sess.taken /\ sess.refused = <<>>

\* C26: a session whose client never completes the SSH handshake does not
\* wait in the handshake for ever: it ends, and then the client's socket
\* is closed and the upstream was never contacted
C26_StalledHandshakeEnds ==
    /\ (sess.pc = "handshake") ~> (sess.pc # "handshake")
    /\ []((sess.pc = "returned" /\ sess.estab = {})
            => (sess.closed /\ sess.upstream = 0))

\* C27: an event is proxied only in a session with both connections
\* established, and a session whose upstream connect or handshake failed
\* has returned with nothing proxied and the client's SSH connection and
\* TCP connection closed
C27_NothingProxiedUnlessBothEstablished ==
    /\ (sess.disp # <<>> \/ sess.taken # <<>>) => sess.estab = Sides
    /\ (sess.upstream > 0 /\ "client" \notin sess.estab)
         => /\ sess.pc = "returned"
            /\ sess.disp = <<>> /\ sess.sent = <<>>
            /\ sess.scClosed /\ ClientTCPClosed

\* the upstream could not be reached while the client's first events
\* were waiting
C27_Witness ==
    /\ sess.pc = "returned" /\ sess.estab = {"sc"}
    /\ sess.upstream > 0 /\ sess.arrived > 0

\* ---------------------------------------------------------------------
\* config.go: LoadOrMakeKeys and the key files; main's use of the keys

\* the runs of the program over the same key files
MaxRuns == 2

\* what a key file may hold when the program starts: nothing (the file
\* does not exist), a file that cannot be read, bytes that do not parse,
\* or the key named after the file
Contents(kf) == {"absent", "unreadable", "junk", "key:" \o kf}

\* a key was read or made
IsKey(k) == k \notin {"", "absent", "unreadable", "junk"}

\* how generateKey may end: both files written, no file written, or the
\* private key written and the .pub file not
GenOutcomes == {"ok", "keyfail", "pubfail"}

\* what ssh.Dial meets at the upstream address: the server, whose host key
\* reaches the HostKeyCallback, or no server
UpstreamAnswers == {"upstream", "unreachable"}

\* generateKey(kf): makes a key, writes kf and kf.pub, returns the key
generateKey(fs, kf, gen) ==
    IF gen = "keyfail"
    THEN [k |-> "", err |-> TRUE, fs |-> fs, wrote |-> {}]
    ELSE IF gen = "pubfail"
    THEN [k |-> "", err |-> TRUE, fs |-> [fs EXCEPT ![kf] = "new:" \o kf],
          wrote |-> {kf}]
    ELSE [k |-> "new:" \o kf, err |-> FALSE,
          fs |-> [fs EXCEPT ![kf] = "new:" \o kf],
          wrote |-> {kf, kf \o ".pub"}]

\* makeOrGetKey(kf): the key, whether it was made, an error
makeOrGetKey(fs, kf, gen) ==
    IF fs[kf] = "absent"
    THEN LET g == generateKey(fs, kf, gen)
         IN  [k |-> g.k, made |-> TRUE, err |-> g.err, fs |-> g.fs,
              wrote |-> g.wrote]
    ELSE IF fs[kf] \in {"unreadable", "junk"}
    THEN [k |-> "", made |-> FALSE, err |-> TRUE, fs |-> fs, wrote |-> {}]
    ELSE [k |-> fs[kf], made |-> FALSE, err |-> FALSE, fs |-> fs,
          wrote |-> {}]

\* getServerKeyFromServer(skf, t): dials t, takes the key its
\* HostKeyCallback is given, writes it to skf
getServerKeyFromServer(fs, skf, up, writeOk) ==
    IF up = "unreachable"
    THEN [k |-> "", err |-> TRUE, fs |-> fs, wrote |-> {}, dials |-> 1]
    ELSE IF ~writeOk
    THEN [k |-> "key:" \o up, err |-> TRUE, fs |-> fs, wrote |-> {},
          dials |-> 1]
    ELSE [k |-> "key:" \o up, err |-> FALSE,
          fs |-> [fs EXCEPT ![skf] = "key:" \o up], wrote |-> {skf},
          dials |-> 1]

\* any failure to read or to parse the file sends getServerKey to the
\* server
getServerKeyRefetch(fs, skf, up, writeOk) ==
    IF ~IsKey(fs[skf])
    THEN LET g == getServerKeyFromServer(fs, skf, up, writeOk)
         IN  [k |-> g.k, got |-> TRUE, err |-> g.err, fs |-> g.fs,
              wrote |-> g.wrote, dials |-> g.dials]
    ELSE [k |-> fs[skf], got |-> FALSE, err |-> FALSE, fs |-> fs,
          wrote |-> {}, dials |-> 0]

\* getServerKey(skf, t): the key, whether it was retrieved from t, an
\* error
getServerKey(fs, skf, up, writeOk) ==
    IF fs[skf] = "absent"
    THEN LET g == getServerKeyFromServer(fs, skf, up, writeOk)
         IN  [k |-> g.k, got |-> TRUE, err |-> g.err, fs |-> g.fs,
              wrote |-> g.wrote, dials |-> g.dials]
    ELSE IF fs[skf] \in {"unreadable", "junk"}
    THEN [k |-> "", got |-> FALSE, err |-> TRUE, fs |-> fs, wrote |-> {},
          dials |-> 0]
    ELSE [k |-> fs[skf], got |-> FALSE, err |-> FALSE, fs |-> fs,
          wrote |-> {}, dials |-> 0]

\* LoadOrMakeKeys(skf, ckf, hkf, server): log.Fatalf on the first error,
\* else return sk, ck, uk
LoadOrMakeKeys(fs, skf, ckf, hkf, gs, gc, up, writeOk) ==
    LET s == makeOrGetKey(fs, skf, gs)
        c == makeOrGetKey(s.fs, ckf, gc)
        u == getServerKey(c.fs, hkf, up, writeOk)
    IN  IF s.err
        THEN [fatal |-> TRUE, ret |-> <<>>, fs |-> s.fs, wrote |-> s.wrote,
              dials |-> 0]
        ELSE IF c.err
        THEN [fatal |-> TRUE, ret |-> <<>>, fs |-> c.fs,
              wrote |-> s.wrote \cup c.wrote, dials |-> 0]
        ELSE IF u.err
        THEN [fatal |-> TRUE, ret |-> <<>>, fs |-> u.fs,
              wrote |-> s.wrote \cup c.wrote \cup u.wrote,
              dials |-> u.dials]
        ELSE [fatal |-> FALSE, ret |-> <<s.k, c.k, u.k>>, fs |-> u.fs,
              wrote |-> s.wrote \cup c.wrote \cup u.wrote,
              dials |-> u.dials]

\* main: ckey, skey, hkey := LoadOrMakeKeys(*skeyf, *ckeyf, *hkeyf, *caddr)
LoadKeys ==
    /\ keys.pc = "start"
    /\ \E gs \in GenOutcomes, gc \in GenOutcomes, up \in UpstreamAnswers,
          writeOk \in BOOLEAN :
          LET r == LoadOrMakeKeys(keys.fs, "skeyf", "ckeyf", "hkeyf",
                                  gs, gc, up, writeOk)
          IN  keys' = [keys EXCEPT
                         !.pc = IF r.fatal THEN "fatal" ELSE "loaded",
                         !.fs = r.fs, !.wrote = r.wrote,
                         !.dials = r.dials, !.ret = r.ret,
                         !.main = IF r.fatal THEN @
                                  ELSE [ckey |-> r.ret[1],
                                        skey |-> r.ret[2],
                                        hkey |-> r.ret[3]]]
    /\ UNCHANGED butKeys

\* main: go Handle(c, skey, ckey, hkey, ...)
StartHandle ==
    /\ keys.pc = "loaded"
    /\ keys' = [keys EXCEPT
                  !.pc = "handling",
                  !.handle = <<keys.main.skey, keys.main.ckey,
                               keys.main.hkey>>]
    /\ UNCHANGED butKeys

\* the program is started again over the files the last run left
RunAgain ==
    /\ keys.pc \in {"handling", "fatal"} /\ keys.run < MaxRuns
    /\ keys' = [NoKeys EXCEPT !.run = keys.run + 1, !.fs = keys.fs]
    /\ UNCHANGED butKeys

KeysInit ==
    /\ InitBase /\ twin = NoTwin /\ obj = NoObj /\ auth = NoAuth
    /\ sess = NoSess /\ acc = NoAcc /\ mu = NoMu /\ opened = NoPair
    /\ keys \in {[NoKeys EXCEPT !.fs = fs] :
                    fs \in {f \in [KeyFiles -> UNION {Contents(kf) :
                                                      kf \in KeyFiles}] :
                              \A kf \in KeyFiles : f[kf] \in Contents(kf)}}

KeysNext == LoadKeys \/ StartHandle \/ RunAgain

KeysSpec == KeysInit /\ [][KeysNext]_vars

\* C28: LoadOrMakeKeys returns the client key (the key of the client key
\* file), the server key (the key of the server key file) and the
\* upstream host key, in this order; the host key main hands to Handle is
\* the key of the server key file and the key for the upstream is the key
\* of the client key file
C28_KeysInOrder ==
    /\ keys.pc \in {"loaded", "handling"}
         => keys.ret = <<keys.fs["ckeyf"], keys.fs["skeyf"],
                         keys.fs["hkeyf"]>>
    /\ keys.pc = "handling"
         => /\ keys.handle[1] = keys.fs["skeyf"]
            /\ keys.handle[2] = keys.fs["ckeyf"]
            /\ keys.handle[3] = keys.fs["hkeyf"]

ReqPending(dir) == ~reqsNil[dir] /\ reqs[dir] # <<>>

\* the worker of dir takes a chunk (or the end) of a stream in this step
ChunkHandled(dir) ==
    \E st \in Streams :
        \/ delivered'[dir][st] # delivered[dir][st]
        \/ chNil'[dir][st] # chNil[dir][st]

\* C30: a direction worker whose cycle starts with a request pending does
\* not go on to its data, and it takes a data or stderr chunk only in a
\* cycle whose non-blocking check of the requests found none
C30_RequestsBeforeData ==
    [][\A dir \in Dirs :
          /\ (wpc[dir] = "outer" /\ ReqPending(dir)) => wpc'[dir] # "inner"
          /\ (wpc[dir] = "outer" /\ wpc'[dir] = "inner") => ~ReqReady(dir)
          /\ ChunkHandled(dir) => wpc[dir] = "inner"]_vars

\* a request was sent on while a chunk of the same direction was waiting
\* in the worker's data channel
C30_Witness ==
    \E dir \in Dirs :
        /\ fwd[dir] # <<>> /\ rpc[dir]["d"] = "send"
        /\ delivered[dir]["d"] = <<>> /\ wpc[dir] = "wait"

\* ---------------------------------------------------------------------
\* cast.go: the methods of the LogFile statement by statement, called by
\* the two direction workers on the LogFile they share

\* method calls one worker makes
MaxOps == 2

\* a Lock that does not wait for the mutex
LockNoMutex(dir, op) ==
    /\ mu.pc[dir] = "idle" /\ mu.n[dir] < MaxOps
    /\ mu' = [mu EXCEPT !.holder = dir, !.pc[dir] = op,
                        !.n[dir] = @ + 1]
    /\ UNCHANGED butMu

\* l.Lock() at the head of Start, WriteShell and Close: the worker of dir
\* enters the method once the mutex is free
Lock(dir, op) ==
    /\ mu.pc[dir] = "idle" /\ mu.n[dir] < MaxOps
    /\ mu.holder = "none"
    /\ mu' = [mu EXCEPT !.holder = dir, !.pc[dir] = op,
                        !.n[dir] = @ + 1]
    /\ UNCHANGED butMu

\* the body of Start and of Close
StartOrClose(dir) ==
    /\ mu.pc[dir] \in {"Start", "Close"}
    /\ mu' = [mu EXCEPT
                !.l = IF mu.pc[dir] = "Start" THEN Start(@, <<>>, Now).l
                      ELSE LogFileClose(@),
                !.pc[dir] = "unlock"]
    /\ UNCHANGED butMu

\* WriteShell up to the test of l.header: the tests of done and start,
\* and MkdirAll and os.Create when there is no file yet
OpenFile(dir) ==
    /\ mu.pc[dir] = "WriteShell"
    /\ IF mu.l.done \/ mu.l.start = ZeroTime
       THEN mu' = [mu EXCEPT !.pc[dir] = "unlock"]
       ELSE IF mu.l.f # "nil"
       THEN mu' = [mu EXCEPT
                     !.pc[dir] = IF mu.l.header THEN "event" ELSE "header"]
       ELSE \E fs \in {"ok", "mkdir", "create"} :
              IF fs # "ok"
              THEN mu' = [mu EXCEPT !.l.done = TRUE, !.pc[dir] = "unlock"]
              ELSE mu' = [mu EXCEPT
                            !.l.f = "open",
                            !.file = [exists |-> TRUE, lines |-> <<>>],
                            !.pc[dir] = IF mu.l.header THEN "event"
                                        ELSE "header"]
    /\ UNCHANGED butMu

\* WriteShell: l.WriteHeader(), and done and l.f.Close() on its error
Header(dir) ==
    /\ mu.pc[dir] = "header"
    /\ \E fs \in {"ok", "header"} :
          LET h == WriteHeader(mu.l, mu.file, fs)
          IN  mu' = [mu EXCEPT
                       !.l = IF h.err THEN CloseF([h.l EXCEPT !.done = TRUE])
                             ELSE h.l,
                       !.file = h.file,
                       !.pc[dir] = IF h.err THEN "unlock" ELSE "event"]
    /\ UNCHANGED butMu

\* WriteShell: the event is marshalled, measured and written
Event(dir) ==
    /\ mu.pc[dir] = "event"
    /\ \E fs \in {"ok", "event"}, b \in {<<1>>} :
          LET w == WriteEvent(mu.l, mu.file, b, dir, fs)
          IN  mu' = [mu EXCEPT !.l = w.l, !.file = w.file,
                               !.pc[dir] = "unlock"]
    /\ UNCHANGED butMu

\* the deferred l.Unlock()
Unlock(dir) ==
    /\ mu.pc[dir] = "unlock"
    /\ mu' = [mu EXCEPT !.holder = "none", !.pc[dir] = "idle"]
    /\ UNCHANGED butMu

MutexInit ==
    /\ InitBase /\ twin = NoTwin /\ obj = NoObj /\ auth = NoAuth
    /\ sess = NoSess /\ acc = NoAcc /\ keys = NoKeys /\ mu = NoMu
    /\ opened = NoPair

MutexNext ==
    \E dir \in Dirs :
        \/ \E op \in {"Start", "WriteShell", "Close"} : Lock(dir, op)
        \/ StartOrClose(dir) \/ OpenFile(dir) \/ Header(dir)
        \/ Event(dir) \/ Unlock(dir)

MutexSpec == MutexInit /\ [][MutexNext]_vars

\* C31: at no time are both workers inside a method of the recorder; the
\* first line of the recording file is the header, and no header line
\* follows any other line
C31_RecorderSerialized ==
    /\ Cardinality({dir \in Dirs : mu.pc[dir] # "idle"}) <= 1
    /\ mu.file.lines # <<>> => mu.file.lines[1].kind = "H"
    /\ \A k \in 2..Len(mu.file.lines) : mu.file.lines[k].kind = "E"

\* both workers have written an event to the recording
C31_Witness ==
    /\ \E k \in 1..Len(mu.file.lines) : mu.file.lines[k].dir = "i"
    /\ \E k \in 1..Len(mu.file.lines) : mu.file.lines[k].dir = "o"

\* ---------------------------------------------------------------------
\* channel.go: HandleChannel for a channel-open of either endpoint, and
\* the direction its workers give to the recorded chunks

\* chunks through one channel pair
MaxFlow == 3

\* the endpoint whose peer is at the other end of channel ch of a pair
\* opened by opener: ich is the channel nc.Accept() returned, pch the one
\* c.OpenChannel opened on the other connection
Facing(opener, ch) ==
    IF ch = "ich" THEN opener
    ELSE IF opener = "client" THEN "upstream" ELSE "client"

\* the direction of the worker that reads channel ch
DirOf(ch) == CHOOSE dir \in Dirs : SrcOf(dir) = ch

\* the event lines of a recording
Events(lines) == SelectSeq(lines, LAMBDA x : x.kind = "E")

\* a channel-open of endpoint e arrives and HandleChannel pairs it
ChannelOpen(e) ==
    /\ opened.opener = "none"
    /\ opened' = [opened EXCEPT !.opener = e]
    /\ UNCHANGED butPair

\* a shell request goes through the pair: lf.Start("")
ShellStart ==
    /\ opened.opener # "none" /\ opened.l.start = ZeroTime
    /\ opened' = [opened EXCEPT !.l = Start(@, <<>>, Now).l]
    /\ UNCHANGED butPair

\* endpoint e sends a chunk: the worker reading the channel that faces e
\* writes it to its io.MultiWriter, the recorder first
Chunk(e) ==
    /\ opened.opener # "none" /\ opened.n < MaxFlow
    /\ \E ch \in Chans, b \in {<<1>>, <<2>>}, fs \in FsOutcomes :
          /\ Facing(opened.opener, ch) = e
          /\ LET w == MultiWriterWrite(opened.l, opened.file, b, DirOf(ch),
                                       fs, DstOf(DirOf(ch)), 0)
             IN  opened' = [opened EXCEPT
                              !.l = w.l, !.file = w.file, !.n = @ + 1,
                              !.from = IF Len(Events(w.file.lines))
                                          > Len(Events(opened.file.lines))
                                       THEN Append(@, e) ELSE @]
    /\ UNCHANGED butPair

PairInit ==
    /\ InitBase /\ twin = NoTwin /\ obj = NoObj /\ auth = NoAuth
    /\ sess = NoSess /\ acc = NoAcc /\ keys = NoKeys /\ mu = NoMu
    /\ opened = NoPair

PairNext ==
    \/ \E e \in Endpoints : ChannelOpen(e)
    \/ ShellStart
    \/ \E e \in Endpoints : Chunk(e)

PairSpec == PairInit /\ [][PairNext]_vars

\* C32: an event of the recording has the direction "i" exactly when its
\* bytes came from the client and "o" exactly when they came from the
\* upstream, whichever endpoint opened the channel
C32_DirectionIsFlow ==
    \A k \in 1..Len(Events(opened.file.lines)) :
        /\ Events(opened.file.lines)[k].dir = "i"
              <=> opened.from[k] = "client"
        /\ Events(opened.file.lines)[k].dir = "o"
              <=> opened.from[k] = "upstream"

\* C33 as stated: once a side has sent EOF on its channel or a write to a
\* channel has failed, the proxy closes both channels of the pair (unless
\* the process is gone or a worker waits for the answer to a request)
C33_ClosedOnHalfClose ==
    (Paired /\ \/ \E c \in Chans : srcEOF[c]
               \/ \E dir \in Dirs, st \in Streams : wfail[dir][st])
        ~> (BothClosed \/ panicked \/ \E dir \in Dirs : wpc[dir] = "wait")

\* C33: a side that sends EOF has the opposite channel half-closed by the
\* worker that saw the end of its data, and the pair is torn down only
\* after a side has fully closed its channel (or its connection ended)
C33_OpenUntilFullClose ==
    /\ \A dir \in Dirs : chNil[dir]["d"] => sentEOF[DstOf(dir)]
    /\ (\E dir \in Dirs : wpc[dir] \in {"drain", "exited"})
         => \E c \in Chans : broken[c]
    /\ hc = "closed" => \E c \in Chans : broken[c]

\* the client sent EOF and kept its channel open, the upstream's channel
\* was half-closed, and the pair was torn down once the upstream closed
C33_Witness ==
    /\ srcEOF["ich"] /\ ~broken["ich"] /\ sentEOF["pch"]
    /\ broken["pch"] /\ hc = "closed" /\ BothClosed

\* ---------------------------------------------------------------------
\* HandleChannel for every channel-open, and the pair without traffic
OpenInit == InitChannel /\ UnitInit /\ nc \in NewChannels

OpenNext ==
    \/ \E r \in Reasons, m \in Messages : OpenRejected(r, m)
    \/ \E m \in Messages : OpenFailed(m)
    \/ OpenOK
    \/ AcceptFailed
    \/ AcceptOK
    \/ Teardown
    \/ \E c \in Chans : PeerEOF(c)
    \/ \E c \in Chans : PeerClose(c)
    \/ \E dir \in Dirs : LoopExit(dir)
    \/ \E dir \in Dirs : OuterRequest(dir)
    \/ \E dir \in Dirs : OuterDefault(dir)
    \/ \E dir \in Dirs : InnerRequest(dir)
    \/ \E dir \in Dirs, st \in Streams : InnerData(dir, st)
    \/ \E dir \in Dirs : WorkerReturn(dir)

OpenSpec == OpenInit /\ [][OpenNext]_vars

\* C34: when Accept is called on the incoming channel, the counterpart has
\* been opened on the other connection with the channel type and the extra
\* data of the incoming open, without error; and after a failed Accept the
\* counterpart is closed, the incoming channel is not, and no worker and
\* no reader runs
C34_AcceptAfterSameOpen ==
    /\ (\E k \in 1..Len(ncCalls) : ncCalls[k].op = "Accept")
         => /\ ocCalls = <<[type |-> nc.type, extra |-> nc.extra]>>
            /\ openErr = NoErr
    /\ (\E k \in 1..Len(ncCalls) :
            ncCalls[k].op = "Accept" /\ ncCalls[k].message = "failed")
         => /\ hc = "returned"
            /\ closes = [c \in Chans |-> IF c = "pch" THEN 1 ELSE 0]
            /\ \A dir \in Dirs : wpc[dir] = "idle"
            /\ \A dir \in Dirs, st \in Streams : rpc[dir][st] = "idle"

\* the counterpart of a direct-tcpip channel was opened and the Accept of
\* the incoming channel failed
C34_Witness ==
    /\ nc = [type |-> "direct-tcpip", extra |-> <<7>>]
    /\ ncCalls = <<[op |-> "Accept", reason |-> "", message |-> "failed"]>>
    /\ hc = "returned" /\ closes["pch"] = 1


\* ------------------------------------------- ParsePTYPayload, call by call
\* the pty-req payloads handed to ParsePTYPayload
PtyPayloads == {PtyGood, PtyOther, PtyEmptyTerm, PtyShortTerm, PtyTiny}

\* lf.ParsePTYPayload(r): a call that returns.  (The payloads whose slice
\* bounds panic end the program and are not followed by another call.)
CallParsePTY ==
    /\ obj.calls < MaxCalls
    /\ \E r \in PtyPayloads :
          LET res == ParsePTYPayload(obj.l, r, <<>>)
          IN  /\ ~res.panic
              /\ obj' = [Called("ParsePTYPayload", res.l, obj.file, <<>>, r,
                                0, res.err)
                           EXCEPT !.parsed = IF res.err THEN @ ELSE @ + 1]
    /\ UNCHANGED butObj

PtyInit == InitBase /\ UnitInit

PtyNext == CallParsePTY \/ CallStart \/ CallClose

PtySpec == PtyInit /\ [][PtyNext]_vars

\* the number of ParsePTYPayload calls that had returned nil before the
\* last call
ParsedBefore ==
    IF obj.call = "ParsePTYPayload" /\ ~obj.err THEN obj.parsed - 1
    ELSE obj.parsed

\* C35: once a ParsePTYPayload call has returned nil, whatever the TERM of
\* its payload (the empty string included), every later call returns an
\* error and leaves TERM, width and height as they were
C35_PTYAtMostOnce ==
    (obj.call = "ParsePTYPayload" /\ ParsedBefore > 0) =>
        /\ obj.err
        /\ obj.l.term = obj.was.term
        /\ obj.l.width = obj.was.width
        /\ obj.l.height = obj.was.height

\* the same for a first payload whose TERM is not empty
NamedTermRefused ==
    (obj.call = "ParsePTYPayload" /\ obj.was.term # <<>>) =>
        /\ obj.err
        /\ obj.l = obj.was


\* a is an initial part of b
IsPrefix(a, b) == Len(a) <= Len(b) /\ SubSeq(b, 1, Len(a)) = a

\* C36: in each direction and on each stream, the bytes written to the
\* destination are an initial part of the bytes read from the source:
\* nothing is reordered, written twice or put in between
C36_DeliveredIsPrefix ==
    \A dir \in Dirs, st \in Streams :
        IsPrefix(delivered[dir][st], SeqOf(srcRead[dir][st]))

\* a stream that has written its first chunk and has given up with a later
\* chunk read but not written
C36_Witness ==
    \E dir \in Dirs, st \in Streams :
        /\ delivered[dir][st] # <<>>
        /\ Len(delivered[dir][st]) < srcRead[dir][st]
        /\ chNil[dir][st] /\ rpc[dir][st] # "send"


\* ------------------------------------- several requests in one direction
\* channel requests that arrive on one channel pair
MaxQueue == 3

\* one channel request more arrives from the peer of the source of dir
ArriveNext(dir) ==
    /\ ~panicked /\ Paired /\ ~reqsClosed[SrcOf(dir)]
    /\ TotalArrived < MaxQueue
    /\ \E r \in CoreReqs :
          reqs' = [reqs EXCEPT ![dir] = Append(@, [id |-> arrived[dir] + 1,
                                                   req |-> r])]
    /\ arrived' = [arrived EXCEPT ![dir] = @ + 1]
    /\ UNCHANGED <<hcVars, chanVars, reqsNil, discard, cur, nreq, fwd, answers,
                   replies, dataVars, recVars, doneVars, wpc, panicked, glob,
                   unitVars>>

OrderNext ==
    \/ \E dir \in Dirs : ArriveNext(dir)
    \/ \E c \in Chans : PeerEOF(c)
    \/ \E c \in Chans : PeerClose(c)
    \/ \E dir \in Dirs : LoopExit(dir)
    \/ \E dir \in Dirs : OuterRequest(dir)
    \/ \E dir \in Dirs : OuterDefault(dir)
    \/ \E dir \in Dirs : InnerRequest(dir)
    \/ \E dir \in Dirs : ReplyArrives(dir)
    \/ \E dir \in Dirs : ReplyFails(dir)
    \/ \E dir \in Dirs : Discard(dir)
    \/ \E dir \in Dirs, st \in Streams : InnerData(dir, st)
    \/ \E dir \in Dirs : WorkerReturn(dir)

OrderSpec == DataInit /\ [][OrderNext]_vars

\* the ids of a sequence of requests or replies
Ids(s) == [j \in 1..Len(s) |-> s[j].id]

\* C37: the requests of one direction are forwarded in the order of their
\* arrival, none left out before a forwarded one, and one at a time: when
\* a request has been forwarded, every request forwarded before it that
\* wanted a reply has had its answer relayed to the requester, and the
\* replies went back in the order of the requests
C37_RequestsOneAtATime ==
    \A dir \in Dirs :
        /\ Ids(fwd[dir]) = SeqOf(Len(fwd[dir]))
        /\ \A j \in 1..(Len(fwd[dir]) - 1) :
              fwd[dir][j].req.wantReply =>
                  \E k \in 1..Len(replies[dir]) :
                      replies[dir][k].id = fwd[dir][j].id
        /\ \A j, k \in 1..Len(replies[dir]) :
              j < k => replies[dir][j].id < replies[dir][k].id
        /\ (wpc[dir] = "wait") =>
              /\ fwd[dir] # <<>>
              /\ cur[dir] = fwd[dir][Len(fwd[dir])]

\* a direction has forwarded three requests, the last two wanting a reply,
\* and waits for the answer to the third with the reply to the second
\* relayed
C37_Witness ==
    \E dir \in Dirs :
        /\ Len(fwd[dir]) = 3 /\ wpc[dir] = "wait"
        /\ fwd[dir][2].req.wantReply /\ fwd[dir][3].req.wantReply
        /\ \E k \in 1..Len(replies[dir]) : replies[dir][k].id = 2


\* some worker has returned from proxyChannel
SomeExited == \E dir \in Dirs : wpc[dir] = "exited"

\* C38: the first worker to return closes the recorder: from its return on
\* the recorder is done and no line is added to the recording, whatever
\* the other direction still forwards, and the Close of the worker that
\* returns second changes nothing and does not close the file again
C38_FirstExitClosesRecorder ==
    /\ [](SomeExited => lf.done /\ lf.f # "open")
    /\ [][SomeExited => file' = file]_vars
    /\ [][\A dir \in Dirs :
            (SomeExited /\ wpc[dir] = "drain" /\ wpc'[dir] = "exited")
                => lf' = lf]_vars

\* both workers have returned, the recording has an event line, and its
\* file was closed once
C38_Witness ==
    /\ \A dir \in Dirs : wpc[dir] = "exited"
    /\ lf.done /\ lf.f = "closed" /\ lf.fcloses = 1
    /\ LinesOfKind("E") # {}
    /\ dchCloses = 1


AllReturned ==
    /\ \A dir \in Dirs : wpc[dir] = "exited"
    /\ \A dir \in Dirs, st \in Streams : rpc[dir][st] = "closed"

\* C40: once both channels of a pair are closed, both workers and the
\* four stream readers return (unless the process is gone): no reader stays
\* blocked with a chunk that its worker no longer receives
C40_AllReturnAfterClose ==
    (Paired /\ \A c \in Chans : broken[c]) ~> (AllReturned \/ panicked)

\* both channels are closed and everything has returned; a stream whose
\* first chunk, of one byte, was recorded and failed to be written had a
\* second byte read, which only drainStream can have received
C40_Witness ==
    /\ AllReturned /\ \A c \in Chans : broken[c]
    /\ \E dir \in Dirs, st \in Streams :
          /\ wfail[dir][st] /\ delivered[dir][st] = <<>>
          /\ srcRead[dir][st] = 2
          /\ \E i \in 1..Len(file.lines) :
                /\ file.lines[i].kind = "E" /\ file.lines[i].dir = dir
                /\ file.lines[i].data = <<1>>

====
